---------------------------- MODULE Spec2Model ----------------------------
(***************************************************************************)
(* A model of the connection / event core of go-matter-server:             *)
(*   internal/websocket/handler.go  (Handler, Connection)                  *)
(*   internal/server/server.go      (Subscribe, EmitEvent), which is       *)
(*                                  src/unnamed/part_006                   *)
(* Every goroutine of the code is a process of the model; one action is    *)
(* one step between two synchronisation points of the code.                *)
(***************************************************************************)
EXTENDS Naturals, Integers, Sequences, FiniteSets, TLC

(* ---- bounds of the model ---- *)
MaxSessions == 2      \* connections accepted by HandleWebSocket
QueueCap == 1         \* capacity of Connection.send (256 in handler.go:84)
MaxFrames == 2        \* frames a client sends on one session
MaxEvents == 2        \* calls of Server.EmitEvent
MaxBroadcasts == 2    \* calls of Handler.BroadcastEvent
FlowSessions == 1     \* clients of the traffic scenario (SpecFlow)
FlowEvents == 1       \* events published in the traffic scenario
MaxSubs == 4          \* calls of Server.Subscribe in the subscription scenario
MaxNodes == 3         \* node identifiers 1..MaxNodes
MaxUnsubs == 2        \* invocations of one unsubscribe closure
MaxRecords == 1       \* records built by the callers of SaveNode
CopyNodes == 2        \* nodes whose records are handed across a boundary
MaxFabric == 2        \* configured fabric ids 1..MaxFabric

Sessions == 1..MaxSessions
FrameIds == 1..MaxFrames
EventIds == 1..MaxEvents

NoOne == "none"
NoMsg == [kind |-> "none", id |-> 0, src |-> 0, n |-> 0]

(* The goroutines that can be inside Connection.close: HandleWebSocket,    *)
(* readPump and writePump of each session, BroadcastEvent and Shutdown.    *)
BC == <<"bc", 0>>
SD == <<"sd", 0>>
CloseCallers == ({"hw", "rp", "wp"} \X Sessions) \cup {BC, SD}

VARIABLES
  hwPc,            \* HandleWebSocket of session s: position
  cancelled,       \* c.ctx: "no", or who cancelled it: "close" | "upstream"
  unsubField,      \* c.unsubscribe != nil
  unsubCalls,      \* invocations of the unsubscribe closure of session s
  eventCallbacks,  \* Server.eventCallbacks: sequence of subscribed sessions
  connections,     \* Handler.connections (the keys)
  mu,              \* Handler.connectionsMu: writer and readers holding it
  send,            \* c.send: buffered content of the channel
  enqN,            \* messages enqueued on c.send so far (stamps the next)
  chanClosed,      \* c.send has been closed
  closers,         \* spawned "close(c.send)" goroutines that have not run
  sockClosed,      \* c.conn.Close() was called
  written,         \* frames written to the socket of session s
  rpPc,            \* readPump position
  frames,          \* frames read by readPump of session s
  wpPc,            \* writePump position
  wpBuf,           \* message received by writePump, not yet written
  cmdPc,           \* handleCommand goroutine of frame m on session s
  emitted,         \* EmitEvent calls so far
  evPc,            \* event callback goroutine of event e on session s
  closePc,         \* position of each caller inside Connection.close
  bcPc, bcTodo, bcCur, bcCount,   \* BroadcastEvent
  sdPc, sdTodo, sdCur,            \* Handler.Shutdown
  sdSeen,          \* the sessions registered when Shutdown took the lock
  crashed,         \* an unrecovered panic ended the process
  subIssued,       \* Server.Subscribe calls so far (ids 1..subIssued issued)
  unsubCount,      \* invocations of the unsubscribe closure of id i
  nodes,           \* Server.nodes: node id -> record
  stNodes,         \* JSONStorage.nodes: node id -> record
  heap,            \* the maps and slices that records point to
  held,            \* the record a caller of a lookup or of SaveNode holds
  lastCmd,         \* the last command handed to Server.HandleCommand
  lastOut,         \* what Server.HandleCommand returned for it
  cfg,             \* the configuration handed to New
  serverInfo,      \* Server.serverInfo
  runPc,           \* position of Server.Run
  mdnsPc,          \* mdns.Server: "none" (not created) | "new" | "started" | "failed"
  mdnsShutdown,    \* mdns.Server.shutdown, the atomic flag
  udpConn,         \* ipv4conn and ipv6conn: "nil" | "open" | "closed"
  recvPc,          \* position of each recv goroutine
  handled,         \* packets each recv goroutine handed to parsePacket
  lateReads,       \* reads each recv goroutine began after the flag was set
  lateHandled,     \* packets each recv goroutine handled after the flag was set
  mdnsSdPc,        \* position of mdns.Server.Shutdown
  mdnsSdErr,       \* errors mdns.Server.Shutdown collected so far
  dnsPc,           \* a DNS message on its way: "idle" | "built" | "encoded" | "received" | "parsed"
  dnsMsg,          \* the dnsMessage handed to encodeDNSMessage
  dnsBuf,          \* the bytes encoded or received
  dnsParsed,       \* what parseDNSMessage did with the bytes
  zonePc,          \* the MatterZone: "none" | "built"
  zoneCfgHost,     \* the hostname handed to NewMatterZone
  zoneHostname,    \* MatterZone.hostname
  zoneIps,         \* MatterZone.ips, the slice header: pointer and length
  zoneArrays,      \* the backing arrays the slice headers point to
  updPc,           \* position of a caller of UpdateIPs
  updNew,          \* the slice updateIPs built
  updStored,       \* the words of z.ips the assignment has written
  recPc,           \* position of a caller of Records
  recQ,            \* the question of that call
  recHdr,          \* the words of z.ips that call has read
  recOut,          \* the records that call returned
  stPc,            \* JSONStorage: "new" | "started" | "stopped"
  stFile,          \* nodes.json: whether it exists and the nodes it holds
  stSettings,      \* JSONStorage.settings: key -> value
  stSetFile,       \* settings.json: whether it exists and the JSON it holds
  stStopped,       \* what the instance held when its Stop returned nil
  fsFiles,         \* the files of the base path a save is writing
  savePc,          \* position of saveJSONFile
  savePath,        \* the path handed to saveJSONFile
  saveData,        \* the document handed to saveJSONFile
  saveErr,         \* the error saveJSONFile returned
  pktPc,           \* a received mDNS packet: "idle" | "done"
  pktBuf,          \* the bytes of the packet handed to parsePacket
  pktOut,          \* what parsePacket did: the lookups made, the bytes sent
  nmPc,            \* a name on its way: "chosen" | "encoded" | "parsed"
  nmName,          \* the labels of the name
  nmBuf,           \* the bytes that hold the name, as a peer laid them out
  nmOff,           \* the offset in nmBuf at which the name starts
  nmPtr,           \* the offset of the first pointer of the name, or -1
  nmOut            \* what parseName returned for nmBuf at nmOff

vars == <<hwPc, cancelled, unsubField, unsubCalls, eventCallbacks, connections,
          mu, send, enqN, chanClosed, closers, sockClosed, written, rpPc,
          frames, wpPc, wpBuf, cmdPc, emitted, evPc, closePc, bcPc, bcTodo,
          bcCur, bcCount, sdPc, sdTodo, sdCur, sdSeen, crashed, subIssued,
          unsubCount, nodes, stNodes, heap, held, lastCmd, lastOut,
          cfg, serverInfo, runPc, mdnsPc, mdnsShutdown, udpConn, recvPc,
          handled, lateReads, lateHandled, mdnsSdPc, mdnsSdErr, dnsPc,
          dnsMsg, dnsBuf, dnsParsed, zonePc, zoneCfgHost, zoneHostname,
          zoneIps, zoneArrays, updPc, updNew, updStored, recPc, recQ, recHdr,
          recOut, stPc, stFile, stSettings, stSetFile, stStopped, fsFiles,
          savePc, savePath, saveData, saveErr, pktPc, pktBuf, pktOut,
          nmPc, nmName, nmBuf, nmOff, nmPtr, nmOut>>

(* The state of the websocket handler but the subscriber list, and the     *)
(* state of the server and of its storage.                                 *)
wsVars == <<hwPc, cancelled, unsubField, unsubCalls, connections, mu, send,
            enqN, chanClosed, closers, sockClosed, written, rpPc, frames, wpPc,
            wpBuf, cmdPc, emitted, evPc, closePc, bcPc, bcTodo, bcCur, bcCount,
            sdPc, sdTodo, sdCur, sdSeen, crashed>>
subVars == <<subIssued, unsubCount>>
nodeVars == <<nodes, stNodes, heap, held>>
cmdVars == <<lastCmd, lastOut>>
runVars == <<cfg, serverInfo, runPc>>
mdnsVars == <<mdnsPc, mdnsShutdown, udpConn, recvPc, handled, lateReads,
              lateHandled, mdnsSdPc, mdnsSdErr>>
codecVars == <<dnsPc, dnsMsg, dnsBuf, dnsParsed>>
zoneVars == <<zonePc, zoneCfgHost, zoneHostname, zoneIps, zoneArrays, updPc,
              updNew, updStored, recPc, recQ, recHdr, recOut>>
fileVars == <<stPc, stFile>>
settingVars == <<stSettings, stSetFile, stStopped>>
saveVars == <<fsFiles, savePc, savePath, saveData, saveErr>>
pktVars == <<pktPc, pktBuf, pktOut>>
nameVars == <<nmPc, nmName, nmBuf, nmOff, nmPtr, nmOut>>
moreVars == <<settingVars, saveVars, pktVars, nameVars>>
restVars == <<codecVars, zoneVars, fileVars, moreVars>>
extVars == <<runVars, mdnsVars, restVars>>
srvVars == <<subVars, nodeVars, cmdVars, extVars>>

bcVars == <<bcPc, bcTodo, bcCur, bcCount>>
sdVars == <<sdPc, sdTodo, sdCur, sdSeen>>

(* ---- helpers ---- *)
CtxDone(s) == cancelled[s] # "no"

MuFree == mu.w = NoOne /\ mu.r = {}

RECURSIVE Flatten(_)
Flatten(fs) == IF fs = <<>> THEN <<>> ELSE Head(fs) \o Flatten(Tail(fs))

(* Variant of RemoveSub: the closure removes the entry at the position its *)
(* subscription had when it was added, not the entry with its id.          *)
RemoveSubByPosition(list, s) ==
  [k \in 1..(Len(list) - (IF s <= Len(list) THEN 1 ELSE 0)) |->
     IF k < s THEN list[k] ELSE list[k + 1]]

(* The loop of the unsubscribe closure (server.go:260-265): the first      *)
(* entry with the id is cut out and the loop breaks.                       *)
RECURSIVE RemoveSub(_, _)
RemoveSub(list, s) ==
  IF list = <<>> THEN <<>>
  ELSE IF Head(list) = s THEN Tail(list)
  ELSE <<Head(list)>> \o RemoveSub(Tail(list), s)

Stamp(s, kind, id, src) == [kind |-> kind, id |-> id, src |-> src, n |-> enqN[s] + 1]

(* ---- values of the server side ---- *)
SubIds == 1..MaxSubs
NodeIds == 1..MaxNodes

(* A nil *MatterNodeData, and the record a caller holds none of.           *)
NoRecord == [node_id |-> [neg |-> FALSE, d |-> <<"0">>], available |-> FALSE, attrs |-> 0, subs |-> 0]

(* models.MatterNodeData (types.go:66-75): the identifier, one of the      *)
(* fields held by value, and the two fields held by reference, the         *)
(* Attributes map and the AttributeSubscriptions slice.                    *)
Record(id, avail, a, s) == [node_id |-> id, available |-> avail, attrs |-> a, subs |-> s]

NoCall == [name |-> "-", args |-> <<>>]
Nil == [kind |-> "nil"]
NoErr == "nil"
NoOut == [result |-> Nil, err |-> NoErr]

(* config.Config as far as New reads it (server.go:71, 93): the fabric id  *)
(* and the Bluetooth adapter.                                              *)
Config(f, a, m) ==
  [fabric_id |-> f, adapter_id |-> a, mdns_enabled |-> m]

(* server.go:70-80 and 107-112: the server-info value New builds; the      *)
(* Bluetooth manager of this repository is never available                 *)
(* (bluetooth/manager.go:32-36).                                           *)
ServerInfoOf(c) ==
  [fabric_id |-> c.fabric_id, compressed_fabric_id |-> c.fabric_id,
   schema_version |-> 11, min_supported_schema_version |-> 1,
   sdk_version |-> "go-matter-server-1.0.0", wifi_credentials_set |-> FALSE,
   thread_credentials_set |-> FALSE, bluetooth_enabled |-> FALSE]

InitWs ==
  /\ hwPc = [s \in Sessions |-> "idle"]
  /\ cancelled = [s \in Sessions |-> "no"]
  /\ unsubField = [s \in Sessions |-> FALSE]
  /\ unsubCalls = [s \in Sessions |-> 0]
  /\ connections = {}
  /\ mu = [w |-> NoOne, r |-> {}]
  /\ send = [s \in Sessions |-> <<>>]
  /\ enqN = [s \in Sessions |-> 0]
  /\ chanClosed = [s \in Sessions |-> FALSE]
  /\ closers = [s \in Sessions |-> 0]
  /\ sockClosed = [s \in Sessions |-> FALSE]
  /\ written = [s \in Sessions |-> <<>>]
  /\ rpPc = [s \in Sessions |-> "off"]
  /\ frames = [s \in Sessions |-> 0]
  /\ wpPc = [s \in Sessions |-> "off"]
  /\ wpBuf = [s \in Sessions |-> NoMsg]
  /\ cmdPc = [s \in Sessions |-> [m \in FrameIds |-> "none"]]
  /\ emitted = 0
  /\ evPc = [s \in Sessions |-> [e \in EventIds |-> "none"]]
  /\ closePc = [t \in CloseCallers |-> "idle"]
  /\ bcPc = "idle" /\ bcTodo = {} /\ bcCur = 0 /\ bcCount = 0
  /\ sdPc = "idle" /\ sdTodo = {} /\ sdCur = 0 /\ sdSeen = {}
  /\ crashed = FALSE

(* The server before Run: no subscriber, no node loaded, an empty store.   *)
(* The server as New returns it for the default configuration.            *)
(* mdns.Server as NewServer leaves it (mdns/server.go:124-138): both      *)
(* connections nil, the flag unset, no receive goroutine.  New creates    *)
(* the server only if the configuration enables mDNS (server.go:114-145). *)
Conns == {"ipv4", "ipv6"}

InitMdns ==
  /\ mdnsPc = IF cfg.mdns_enabled THEN "new" ELSE "none"
  /\ mdnsShutdown = FALSE
  /\ udpConn = [c \in Conns |-> "nil"]
  /\ recvPc = [c \in Conns |-> "none"]
  /\ handled = [c \in Conns |-> 0]
  /\ lateReads = [c \in Conns |-> 0]
  /\ lateHandled = [c \in Conns |-> 0]
  /\ mdnsSdPc = "idle"
  /\ mdnsSdErr = 0

(* The zero dnsMessage and the outcomes of a parse.                        *)
NoDNS ==
  [ID |-> 0, Response |-> FALSE, Opcode |-> 0, Authoritative |-> FALSE,
   Truncated |-> FALSE, RecursionDesired |-> FALSE,
   RecursionAvailable |-> FALSE, Rcode |-> 0, Questions |-> <<>>,
   Answers |-> <<>>]

NotParsed == [kind |-> "none"]

InitCodec ==
  /\ dnsPc = "idle"
  /\ dnsMsg = NoDNS
  /\ dnsBuf = <<>>
  /\ dnsParsed = NotParsed

(* No zone yet; the nil slice, the zero Question.                         *)
NilSlice == [ptr |-> 0, len |-> 0]

NoQuestion == [Name |-> <<>>, Type |-> 0, Class |-> 0]

NothingRead == [ptr |-> 0, len |-> 0, got |-> {}]

NoAnswer == [kind |-> "none"]

InitZone ==
  /\ zonePc = "none"
  /\ zoneCfgHost = <<>>
  /\ zoneHostname = <<>>
  /\ zoneIps = NilSlice
  /\ zoneArrays = <<>>
  /\ updPc = "idle"
  /\ updNew = NilSlice
  /\ updStored = {}
  /\ recPc = "idle"
  /\ recQ = NoQuestion
  /\ recHdr = NothingRead
  /\ recOut = NoAnswer

(* nodes.json as saveNodes writes it (storage saveJSONFile): the fields of *)
(* every record, with the contents of its map and of its list.            *)
NoFile == [exists |-> FALSE, nodes |-> <<>>]

FileOf(st, h) ==
  [exists |-> TRUE,
   nodes |-> [i \in DOMAIN st |->
                [available |-> st[i].available, attrs |-> h[st[i].attrs],
                 subs |-> h[st[i].subs]]]]

(* A started storage: its map was loaded from the file, if there was one.  *)
InitFile ==
  /\ stPc = "started"
  /\ stFile = IF DOMAIN stNodes = {} THEN NoFile ELSE FileOf(stNodes, heap)

(* NewJSONStorage: no setting held; nothing stopped yet, no settings.json. *)
NoSetFile == [exists |-> FALSE, settings |-> <<>>]
NotStopped == [stopped |-> FALSE, nodes |-> <<>>, settings |-> <<>>]

InitSettings ==
  /\ stSettings = <<>>
  /\ stSetFile = NoSetFile
  /\ stStopped = NotStopped

(* A file of the base path: absent, or holding a document, whole or not.   *)
Absent == [exists |-> FALSE, doc |-> "", whole |-> TRUE]
SavePaths == {"nodes.json", "nodes.json.tmp", "settings.json", "settings.json.tmp"}

InitSave ==
  /\ fsFiles = [p \in SavePaths |-> Absent]
  /\ savePc = "idle"
  /\ savePath = ""
  /\ saveData = ""
  /\ saveErr = NoErr

(* No packet has been received.                                            *)
NoOutcome == [kind |-> "none", lookups |-> <<>>, sent |-> <<>>]

InitPkt ==
  /\ pktPc = "idle"
  /\ pktBuf = <<>>
  /\ pktOut = NoOutcome

(* No name is being parsed.                                                *)
InitName ==
  /\ nmPc = "idle"
  /\ nmName = <<>>
  /\ nmBuf = <<>>
  /\ nmOff = 0
  /\ nmPtr = 0 - 1
  /\ nmOut = [kind |-> "none"]

InitMore == InitSettings /\ InitSave /\ InitPkt /\ InitName

InitRest == InitCodec /\ InitZone /\ InitFile /\ InitMore

InitExt ==
  /\ cfg = Config(1, 0 - 1, FALSE)
  /\ serverInfo = ServerInfoOf(cfg)
  /\ runPc = "new"
  /\ InitMdns
  /\ InitRest

InitSrv ==
  /\ subIssued = 0
  /\ unsubCount = [i \in SubIds |-> 0]
  /\ nodes = <<>>
  /\ stNodes = <<>>
  /\ heap = <<>>
  /\ held = NoRecord
  /\ lastCmd = NoCall
  /\ lastOut = NoOut

Init == InitWs /\ eventCallbacks = <<>> /\ InitSrv /\ InitExt


(* ---- Connection.sendMessage (handler.go:287-309) ---- *)
(* The first select: a cancelled scope ends the call at once.              *)
SendCheckPc(s) == IF CtxDone(s) THEN "closed" ELSE "select"

(* The second select, one disjunct per case that can be chosen.  Sending   *)
(* on a closed channel is a ready case of a Go select, and it panics.  The *)
(* timer case is taken only when no other case became ready for 1s: the    *)
(* queue stayed full and the scope stayed live.                            *)
SendSelect(s, msg, o) ==
  \/ /\ o = "sent"
     /\ ~chanClosed[s] /\ Len(send[s]) < QueueCap
     /\ send' = [send EXCEPT ![s] = Append(@, msg)]
     /\ enqN' = [enqN EXCEPT ![s] = @ + 1]
     /\ crashed' = crashed
  \/ /\ o = "closed"
     /\ CtxDone(s)
     /\ UNCHANGED <<send, enqN, crashed>>
  \/ /\ o = "timeout"
     /\ ~CtxDone(s) /\ ~chanClosed[s] /\ Len(send[s]) >= QueueCap
     /\ UNCHANGED <<send, enqN, crashed>>
  \/ /\ o = "panic"
     /\ chanClosed[s]
     /\ crashed' = TRUE
     /\ UNCHANGED <<send, enqN>>

SendOutcomes == {"sent", "closed", "timeout", "panic"}

(* ---- Server.Subscribe / the unsubscribe closure (server.go:248-267) ---- *)
Subscribe(list, s) == Append(list, s)

(* ---- Connection.close (handler.go:325-358) ---- *)
CloseTarget(t) == IF t = BC THEN bcCur ELSE IF t = SD THEN sdCur ELSE t[2]

(* Lines 327-333: the one-shot gate reads the scope; a caller that gets    *)
(* past it tests c.unsubscribe != nil.  The value is the caller's next     *)
(* position in close: "ret" when close returns at once.                    *)
CloseGate(s) ==
  IF CtxDone(s) THEN "ret" ELSE IF unsubField[s] THEN "u2" ELSE "cancel"

(* Variant of Unsubscribe: the closure leaves the list as it is.           *)
UnsubscribeNothing(list, s) == list

(* The unsubscribe closure: removes the entry with the subscription's id,  *)
(* a no-op when it is no longer in the list (server.go:256-266).           *)
Unsubscribe(list, s) == RemoveSub(list, s)

(* Line 334: c.unsubscribe() reads the field again and calls it; calling a *)
(* nil func value is an unrecovered panic.                                 *)
CloseCallUnsub(t) ==
  LET s == CloseTarget(t) IN
  /\ ~crashed
  /\ UNCHANGED srvVars
  /\ closePc[t] = "u2"
  /\ \/ /\ unsubField[s]
        /\ unsubCalls' = [unsubCalls EXCEPT ![s] = @ + 1]
        /\ eventCallbacks' = Unsubscribe(eventCallbacks, s)
        /\ closePc' = [closePc EXCEPT ![t] = "u3"]
        /\ crashed' = crashed
     \/ /\ ~unsubField[s]
        /\ crashed' = TRUE
        /\ UNCHANGED <<unsubCalls, eventCallbacks, closePc>>
  /\ UNCHANGED <<hwPc, cancelled, unsubField, connections, mu, send, enqN,
                 chanClosed, closers, sockClosed, written, rpPc, frames, wpPc,
                 wpBuf, cmdPc, emitted, evPc, bcVars, sdVars>>

(* Line 335: c.unsubscribe = nil.                                          *)
CloseClearUnsub(t) ==
  LET s == CloseTarget(t) IN
  /\ ~crashed
  /\ UNCHANGED srvVars
  /\ closePc[t] = "u3"
  /\ unsubField' = [unsubField EXCEPT ![s] = FALSE]
  /\ closePc' = [closePc EXCEPT ![t] = "cancel"]
  /\ UNCHANGED <<hwPc, cancelled, unsubCalls, eventCallbacks, connections, mu,
                 send, enqN, chanClosed, closers, sockClosed, written, rpPc,
                 frames, wpPc, wpBuf, cmdPc, emitted, evPc, bcVars, sdVars,
                 crashed>>

(* Line 338: c.cancel().                                                   *)
CloseCancel(t) ==
  LET s == CloseTarget(t) IN
  /\ ~crashed
  /\ UNCHANGED srvVars
  /\ closePc[t] = "cancel"
  /\ cancelled' = [cancelled EXCEPT ![s] = IF @ = "no" THEN "close" ELSE @]
  /\ closePc' = [closePc EXCEPT ![t] = "lock"]
  /\ UNCHANGED <<hwPc, unsubField, unsubCalls, eventCallbacks, connections, mu,
                 send, enqN, chanClosed, closers, sockClosed, written, rpPc,
                 frames, wpPc, wpBuf, cmdPc, emitted, evPc, bcVars, sdVars,
                 crashed>>

(* Lines 341-343: delete from the connection table under the write lock of *)
(* connectionsMu.  sync.RWMutex is not reentrant: the step waits until no  *)
(* goroutine, the caller included, holds the lock.                         *)
CloseDelete(t) ==
  LET s == CloseTarget(t) IN
  /\ ~crashed
  /\ UNCHANGED srvVars
  /\ closePc[t] = "lock"
  /\ MuFree
  /\ connections' = connections \ {s}
  /\ closePc' = [closePc EXCEPT ![t] = "chan"]
  /\ UNCHANGED <<hwPc, cancelled, unsubField, unsubCalls, eventCallbacks, mu,
                 send, enqN, chanClosed, closers, sockClosed, written, rpPc,
                 frames, wpPc, wpBuf, cmdPc, emitted, evPc, bcVars, sdVars,
                 crashed>>

(* Lines 346-357: a goroutine is spawned to close c.send, the socket is    *)
(* closed, and close returns to its caller: HandleWebSocket and the pumps  *)
(* end, BroadcastEvent and Shutdown go on with their loops.                *)
CloseFinish(t) ==
  LET s == CloseTarget(t) IN
  /\ ~crashed
  /\ UNCHANGED srvVars
  /\ closePc[t] = "chan"
  /\ closers' = [closers EXCEPT ![s] = @ + 1]
  /\ sockClosed' = [sockClosed EXCEPT ![s] = TRUE]
  /\ closePc' = [closePc EXCEPT ![t] = "idle"]
  /\ hwPc' = IF t[1] = "hw" THEN [hwPc EXCEPT ![s] = "done"] ELSE hwPc
  /\ rpPc' = IF t[1] = "rp" THEN [rpPc EXCEPT ![s] = "done"] ELSE rpPc
  /\ wpPc' = IF t[1] = "wp" THEN [wpPc EXCEPT ![s] = "done"] ELSE wpPc
  /\ bcPc' = IF t = BC THEN "loop" ELSE bcPc
  /\ bcTodo' = IF t = BC THEN bcTodo \ {s} ELSE bcTodo
  /\ bcCur' = IF t = BC THEN 0 ELSE bcCur
  /\ sdPc' = IF t = SD THEN "loop" ELSE sdPc
  /\ sdTodo' = IF t = SD THEN sdTodo \ {s} ELSE sdTodo
  /\ sdCur' = IF t = SD THEN 0 ELSE sdCur
  /\ UNCHANGED <<cancelled, unsubField, unsubCalls, eventCallbacks,
                 connections, mu, send, enqN, chanClosed, wpBuf, written,
                 frames, cmdPc, emitted, evPc, bcCount, sdSeen, crashed>>

(* Lines 346-353: the spawned goroutine; closing a closed channel panics   *)
(* and the panic is recovered.                                             *)
CloserRun(s) ==
  /\ ~crashed
  /\ UNCHANGED srvVars
  /\ closers[s] > 0
  /\ closers' = [closers EXCEPT ![s] = @ - 1]
  /\ chanClosed' = [chanClosed EXCEPT ![s] = TRUE]
  /\ UNCHANGED <<hwPc, cancelled, unsubField, unsubCalls, eventCallbacks,
                 connections, mu, send, enqN, sockClosed, written, rpPc, frames,
                 wpPc, wpBuf, cmdPc, emitted, evPc, closePc, bcVars, sdVars,
                 crashed>>

(* A pump or HandleWebSocket calls close: its own position and its         *)
(* position in close after the gate.                                       *)
PcAfterGate(s) == IF CloseGate(s) = "ret" THEN "done" ELSE "closing"

ClosePcAfterGate(t, s) ==
  IF CloseGate(s) = "ret" THEN closePc ELSE [closePc EXCEPT ![t] = CloseGate(s)]

(* ---- Handler.HandleWebSocket (handler.go:70-119) ---- *)
InfoFrame == <<[kind |-> "info", id |-> 0, src |-> 0, n |-> 0]>>

(* Lines 77-91: the session is built and subscribed to the server events.  *)
(* Connection ids are fresh, so the sessions are taken in order.           *)
HWCreate(s) ==
  /\ ~crashed
  /\ UNCHANGED srvVars
  /\ hwPc[s] = "idle"
  /\ IF s = 1 THEN TRUE ELSE hwPc[s - 1] # "idle"
  /\ hwPc' = [hwPc EXCEPT ![s] = "subscribed"]
  /\ unsubField' = [unsubField EXCEPT ![s] = TRUE]
  /\ eventCallbacks' = Subscribe(eventCallbacks, s)
  /\ UNCHANGED <<cancelled, unsubCalls, connections, mu, send, enqN, chanClosed,
                 closers, sockClosed, written, rpPc, frames, wpPc, wpBuf, cmdPc,
                 emitted, evPc, closePc, bcVars, sdVars, crashed>>

(* Variant of HWRegister: the pumps are started at registration, ahead of  *)
(* the write of the server info.                                           *)
HWRegisterStartsPumps(s) ==
  /\ ~crashed
  /\ UNCHANGED srvVars
  /\ hwPc[s] = "subscribed"
  /\ MuFree
  /\ connections' = connections \cup {s}
  /\ hwPc' = [hwPc EXCEPT ![s] = "registered"]
  /\ rpPc' = [rpPc EXCEPT ![s] = "check"]
  /\ wpPc' = [wpPc EXCEPT ![s] = "select"]
  /\ UNCHANGED <<cancelled, unsubField, unsubCalls, eventCallbacks, mu, send,
                 enqN, chanClosed, closers, sockClosed, written, frames,
                 wpBuf, cmdPc, emitted, evPc, closePc, bcVars, sdVars,
                 crashed>>

(* Lines 94-96: registration under the write lock.                         *)
HWRegister(s) ==
  /\ ~crashed
  /\ UNCHANGED srvVars
  /\ hwPc[s] = "subscribed"
  /\ MuFree
  /\ connections' = connections \cup {s}
  /\ hwPc' = [hwPc EXCEPT ![s] = "registered"]
  /\ UNCHANGED <<cancelled, unsubField, unsubCalls, eventCallbacks, mu, send,
                 enqN, chanClosed, closers, sockClosed, written, rpPc, frames,
                 wpPc, wpBuf, cmdPc, emitted, evPc, closePc, bcVars, sdVars,
                 crashed>>

(* Lines 101-118: the server info is written directly to the socket, then  *)
(* the two pumps are started.                                              *)
HWSendInfo(s) ==
  /\ ~crashed
  /\ UNCHANGED srvVars
  /\ hwPc[s] = "registered"
  /\ ~sockClosed[s]
  /\ written' = [written EXCEPT ![s] = Append(@, InfoFrame)]
  /\ hwPc' = [hwPc EXCEPT ![s] = "done"]
  /\ rpPc' = [rpPc EXCEPT ![s] = "check"]
  /\ wpPc' = [wpPc EXCEPT ![s] = "select"]
  /\ UNCHANGED <<cancelled, unsubField, unsubCalls, eventCallbacks, connections,
                 mu, send, enqN, chanClosed, closers, sockClosed, frames, wpBuf,
                 cmdPc, emitted, evPc, closePc, bcVars, sdVars, crashed>>

(* Lines 110-114: the write of the server info fails (always on a closed   *)
(* socket): client.close() and return, no pump is started.                 *)
HWSendInfoFail(s) ==
  /\ ~crashed
  /\ UNCHANGED srvVars
  /\ hwPc[s] = "registered"
  /\ hwPc' = [hwPc EXCEPT ![s] = PcAfterGate(s)]
  /\ closePc' = ClosePcAfterGate(<<"hw", s>>, s)
  /\ UNCHANGED <<cancelled, unsubField, unsubCalls, eventCallbacks, connections,
                 mu, send, enqN, chanClosed, closers, sockClosed, written, rpPc,
                 frames, wpPc, wpBuf, cmdPc, emitted, evPc, bcVars, sdVars,
                 crashed>>

(* Line 78: the scope is derived from the request context r.Context(), so  *)
(* cancelling that context cancels the scope without any call of close.    *)
UpstreamCancel(s) ==
  /\ ~crashed
  /\ UNCHANGED srvVars
  /\ hwPc[s] # "idle" /\ cancelled[s] = "no"
  /\ cancelled' = [cancelled EXCEPT ![s] = "upstream"]
  /\ UNCHANGED <<hwPc, unsubField, unsubCalls, eventCallbacks, connections, mu,
                 send, enqN, chanClosed, closers, sockClosed, written, rpPc,
                 frames, wpPc, wpBuf, cmdPc, emitted, evPc, closePc, bcVars,
                 sdVars, crashed>>

(* ---- Connection.readPump (handler.go:164-200) ---- *)
(* Lines 177-181: the loop head polls the scope; when it is cancelled the  *)
(* loop returns and the deferred close runs (and returns at its gate).     *)
RPCheck(s) ==
  /\ ~crashed
  /\ UNCHANGED srvVars
  /\ rpPc[s] = "check"
  /\ rpPc' = [rpPc EXCEPT ![s] = IF CtxDone(s) THEN PcAfterGate(s) ELSE "read"]
  /\ UNCHANGED <<hwPc, cancelled, unsubField, unsubCalls, eventCallbacks,
                 connections, mu, send, enqN, chanClosed, closers, sockClosed,
                 written, frames, wpPc, wpBuf, cmdPc, emitted, evPc, closePc,
                 bcVars, sdVars, crashed>>

(* Lines 183-189: ReadMessage fails (peer gone, read deadline, socket      *)
(* closed): the loop returns and the deferred close runs.                  *)
RPReadError(s) ==
  /\ ~crashed
  /\ UNCHANGED srvVars
  /\ rpPc[s] = "read"
  /\ rpPc' = [rpPc EXCEPT ![s] = PcAfterGate(s)]
  /\ closePc' = ClosePcAfterGate(<<"rp", s>>, s)
  /\ UNCHANGED <<hwPc, cancelled, unsubField, unsubCalls, eventCallbacks,
                 connections, mu, send, enqN, chanClosed, closers, sockClosed,
                 written, frames, wpPc, wpBuf, cmdPc, emitted, evPc, bcVars,
                 sdVars, crashed>>

(* Variant of RPReadCommand: "c.handleCommand(cmd)" without "go": the read *)
(* loop runs the handler itself and is back at the loop head only when the *)
(* handler has returned.                                                   *)
RPReadCommandInline(s) ==
  /\ ~crashed
  /\ UNCHANGED srvVars
  /\ rpPc[s] = "read" /\ ~sockClosed[s] /\ frames[s] < MaxFrames
  /\ frames' = [frames EXCEPT ![s] = @ + 1]
  /\ cmdPc' = [cmdPc EXCEPT ![s][frames[s] + 1] = "run"]
  /\ rpPc' = [rpPc EXCEPT ![s] = "handling"]
  /\ UNCHANGED <<hwPc, cancelled, unsubField, unsubCalls, eventCallbacks,
                 connections, mu, send, enqN, chanClosed, closers, sockClosed,
                 written, wpPc, wpBuf, emitted, evPc, closePc, bcVars, sdVars,
                 crashed>>

(* Lines 191-198: a frame that decodes starts "go c.handleCommand(cmd)".   *)
RPReadCommand(s) ==
  /\ ~crashed
  /\ UNCHANGED srvVars
  /\ rpPc[s] = "read" /\ ~sockClosed[s] /\ frames[s] < MaxFrames
  /\ frames' = [frames EXCEPT ![s] = @ + 1]
  /\ cmdPc' = [cmdPc EXCEPT ![s][frames[s] + 1] = "run"]
  /\ rpPc' = [rpPc EXCEPT ![s] = "check"]
  /\ UNCHANGED <<hwPc, cancelled, unsubField, unsubCalls, eventCallbacks,
                 connections, mu, send, enqN, chanClosed, closers, sockClosed,
                 written, wpPc, wpBuf, emitted, evPc, closePc, bcVars, sdVars,
                 crashed>>

(* Lines 192-196: a frame that does not decode; sendError runs in the read *)
(* loop itself, here up to the first select of sendMessage.                *)
RPReadBad(s) ==
  /\ ~crashed
  /\ UNCHANGED srvVars
  /\ rpPc[s] = "read" /\ ~sockClosed[s] /\ frames[s] < MaxFrames
  /\ frames' = [frames EXCEPT ![s] = @ + 1]
  /\ rpPc' = [rpPc EXCEPT ![s] = IF SendCheckPc(s) = "select" THEN "errSelect" ELSE "check"]
  /\ UNCHANGED <<hwPc, cancelled, unsubField, unsubCalls, eventCallbacks,
                 connections, mu, send, enqN, chanClosed, closers, sockClosed,
                 written, wpPc, wpBuf, cmdPc, emitted, evPc, closePc, bcVars,
                 sdVars, crashed>>

(* Variant of RPErrSelect: the read loop returns after the error was sent,  *)
(* instead of "continue", so that the deferred close runs.                 *)
RPErrSelectReturns(s) ==
  /\ ~crashed
  /\ UNCHANGED srvVars
  /\ rpPc[s] = "errSelect"
  /\ \E o \in SendOutcomes : SendSelect(s, Stamp(s, "error400", frames[s], s), o)
  /\ rpPc' = [rpPc EXCEPT ![s] = PcAfterGate(s)]
  /\ closePc' = ClosePcAfterGate(<<"rp", s>>, s)
  /\ UNCHANGED <<hwPc, cancelled, unsubField, unsubCalls, eventCallbacks,
                 connections, mu, chanClosed, closers, sockClosed, written,
                 frames, wpPc, wpBuf, cmdPc, emitted, evPc, bcVars, sdVars>>

(* The second select of that sendMessage; then "continue".                 *)
RPErrSelect(s) ==
  /\ ~crashed
  /\ UNCHANGED srvVars
  /\ rpPc[s] = "errSelect"
  /\ \E o \in SendOutcomes : SendSelect(s, Stamp(s, "error400", frames[s], s), o)
  /\ rpPc' = [rpPc EXCEPT ![s] = "check"]
  /\ UNCHANGED <<hwPc, cancelled, unsubField, unsubCalls, eventCallbacks,
                 connections, mu, chanClosed, closers, sockClosed, written,
                 frames, wpPc, wpBuf, cmdPc, emitted, evPc, closePc, bcVars,
                 sdVars>>

(* ---- Connection.handleCommand (handler.go:245-271) ---- *)
(* Lines 257-258: "c.sendError(...); return": whatever sendError achieved, *)
(* the goroutine ends.                                                     *)
(* Variant of AfterSendError: handleCommand without the return of line     *)
(* 258, so that a sent error result is followed by the success result.     *)
AfterSendErrorFallthrough(o) == IF o = "sent" THEN "okSelect" ELSE o

AfterSendError(o) == o

(* Line 251: Server.HandleCommand returns a result or an error; then the   *)
(* first select of sendMessage.                                            *)
CmdRun(s, m) ==
  /\ ~crashed
  /\ UNCHANGED srvVars
  /\ cmdPc[s][m] = "run"
  /\ \E r \in {"ok", "err"} :
       cmdPc' = [cmdPc EXCEPT ![s][m] =
                   IF SendCheckPc(s) = "select"
                     THEN (IF r = "ok" THEN "okSelect" ELSE "errSelect")
                     ELSE (IF r = "ok" THEN "closed" ELSE AfterSendError("closed"))]
  /\ UNCHANGED <<hwPc, cancelled, unsubField, unsubCalls, eventCallbacks,
                 connections, mu, send, enqN, chanClosed, closers, sockClosed,
                 written, rpPc, frames, wpPc, wpBuf, emitted, evPc, closePc,
                 bcVars, sdVars, crashed>>

(* Lines 261-270: the success result.                                      *)
CmdSendResult(s, m) ==
  /\ ~crashed
  /\ UNCHANGED srvVars
  /\ cmdPc[s][m] = "okSelect"
  /\ \E o \in SendOutcomes :
       /\ SendSelect(s, Stamp(s, "result", m, s), o)
       /\ cmdPc' = [cmdPc EXCEPT ![s][m] = o]
  /\ UNCHANGED <<hwPc, cancelled, unsubField, unsubCalls, eventCallbacks,
                 connections, mu, chanClosed, closers, sockClosed, written,
                 rpPc, frames, wpPc, wpBuf, emitted, evPc, closePc, bcVars,
                 sdVars>>

(* Lines 252-259 with sendError (311-323): the error result.               *)
CmdSendError(s, m) ==
  /\ ~crashed
  /\ UNCHANGED srvVars
  /\ cmdPc[s][m] = "errSelect"
  /\ \E o \in SendOutcomes :
       /\ SendSelect(s, Stamp(s, "error", m, s), o)
       /\ cmdPc' = [cmdPc EXCEPT ![s][m] = AfterSendError(o)]
  /\ UNCHANGED <<hwPc, cancelled, unsubField, unsubCalls, eventCallbacks,
                 connections, mu, chanClosed, closers, sockClosed, written,
                 rpPc, frames, wpPc, wpBuf, emitted, evPc, closePc, bcVars,
                 sdVars>>

(* ---- Connection.writePump (handler.go:202-243) ---- *)
CloseFrame == <<[kind |-> "close", id |-> 0, src |-> 0, n |-> 0]>>

(* Lines 224-231: the messages queued at the moment of the write follow    *)
(* the received one in the same frame.                                     *)
(* Variant of Batch: the queued messages are written ahead of the          *)
(* received one.                                                           *)
BatchSwapped(first, queued) == queued \o <<first>>

Batch(first, queued) == <<first>> \o queued

(* Line 211: the select takes the Done case; the deferred close returns at *)
(* its gate.                                                               *)
WPCtxDone(s) ==
  /\ ~crashed
  /\ UNCHANGED srvVars
  /\ wpPc[s] = "select" /\ CtxDone(s)
  /\ wpPc' = [wpPc EXCEPT ![s] = PcAfterGate(s)]
  /\ UNCHANGED <<hwPc, cancelled, unsubField, unsubCalls, eventCallbacks,
                 connections, mu, send, enqN, chanClosed, closers, sockClosed,
                 written, rpPc, frames, wpBuf, cmdPc, emitted, evPc, closePc,
                 bcVars, sdVars, crashed>>

(* Line 213: the select receives the head of the queue.                    *)
WPRecv(s) ==
  /\ ~crashed
  /\ UNCHANGED srvVars
  /\ wpPc[s] = "select" /\ send[s] # <<>>
  /\ wpBuf' = [wpBuf EXCEPT ![s] = Head(send[s])]
  /\ send' = [send EXCEPT ![s] = Tail(@)]
  /\ wpPc' = [wpPc EXCEPT ![s] = "write"]
  /\ UNCHANGED <<hwPc, cancelled, unsubField, unsubCalls, eventCallbacks,
                 connections, mu, enqN, chanClosed, closers, sockClosed,
                 written, rpPc, frames, cmdPc, emitted, evPc, closePc, bcVars,
                 sdVars, crashed>>

(* Lines 213-218: the receive finds the channel closed and drained; a      *)
(* close control frame is written and the loop returns.  The channel is    *)
(* closed only after the scope was cancelled, so the deferred close        *)
(* returns at its gate.                                                    *)
WPRecvClosed(s) ==
  /\ ~crashed
  /\ UNCHANGED srvVars
  /\ wpPc[s] = "select" /\ chanClosed[s] /\ send[s] = <<>>
  /\ written' = [written EXCEPT ![s] = IF sockClosed[s] THEN @ ELSE Append(@, CloseFrame)]
  /\ wpPc' = [wpPc EXCEPT ![s] = PcAfterGate(s)]
  /\ closePc' = ClosePcAfterGate(<<"wp", s>>, s)
  /\ UNCHANGED <<hwPc, cancelled, unsubField, unsubCalls, eventCallbacks,
                 connections, mu, send, enqN, chanClosed, closers, sockClosed,
                 rpPc, frames, wpBuf, cmdPc, emitted, evPc, bcVars, sdVars,
                 crashed>>

(* Lines 236-240: the keepalive ping fails.  (A ping that succeeds changes *)
(* nothing of the state.)                                                  *)
WPPingFail(s) ==
  /\ ~crashed
  /\ UNCHANGED srvVars
  /\ wpPc[s] = "select"
  /\ wpPc' = [wpPc EXCEPT ![s] = PcAfterGate(s)]
  /\ closePc' = ClosePcAfterGate(<<"wp", s>>, s)
  /\ UNCHANGED <<hwPc, cancelled, unsubField, unsubCalls, eventCallbacks,
                 connections, mu, send, enqN, chanClosed, closers, sockClosed,
                 written, rpPc, frames, wpBuf, cmdPc, emitted, evPc, bcVars,
                 sdVars, crashed>>

(* Lines 220-235: one frame is written: the received message, then the     *)
(* n = len(c.send) messages queued by now.                                 *)
WPWrite(s) ==
  /\ ~crashed
  /\ UNCHANGED srvVars
  /\ wpPc[s] = "write"
  /\ ~sockClosed[s]
  /\ written' = [written EXCEPT ![s] = Append(@, Batch(wpBuf[s], send[s]))]
  /\ send' = [send EXCEPT ![s] = <<>>]
  /\ wpPc' = [wpPc EXCEPT ![s] = "select"]
  /\ wpBuf' = [wpBuf EXCEPT ![s] = NoMsg]
  /\ UNCHANGED <<hwPc, cancelled, unsubField, unsubCalls, eventCallbacks,
                 connections, mu, enqN, chanClosed, closers, sockClosed, rpPc,
                 frames, cmdPc, emitted, evPc, closePc, bcVars, sdVars,
                 crashed>>

(* Lines 220-223 and 233-235: NextWriter fails, or the flush fails after   *)
(* the queued messages were drained (always on a closed socket); the loop  *)
(* returns and the deferred close runs.                                    *)
WPWriteFail(s) ==
  /\ ~crashed
  /\ UNCHANGED srvVars
  /\ wpPc[s] = "write"
  /\ \E drained \in BOOLEAN :
       send' = [send EXCEPT ![s] = IF drained THEN <<>> ELSE @]
  /\ wpBuf' = [wpBuf EXCEPT ![s] = NoMsg]
  /\ wpPc' = [wpPc EXCEPT ![s] = PcAfterGate(s)]
  /\ closePc' = ClosePcAfterGate(<<"wp", s>>, s)
  /\ UNCHANGED <<hwPc, cancelled, unsubField, unsubCalls, eventCallbacks,
                 connections, mu, enqN, chanClosed, closers, sockClosed,
                 written, rpPc, frames, cmdPc, emitted, evPc, bcVars, sdVars,
                 crashed>>

(* ---- Server.EmitEvent (server.go:275-285) ---- *)
(* A snapshot of the subscribers, then "go sub.cb(...)" for each of them.  *)
(* Variant of Snapshot: only the first subscriber is taken.                 *)
SnapshotFirstOnly(list) == IF list = <<>> THEN {} ELSE {list[1]}

Snapshot(list) == {list[i] : i \in 1..Len(list)}

EmitEvent ==
  /\ ~crashed
  /\ UNCHANGED srvVars
  /\ emitted < MaxEvents
  /\ emitted' = emitted + 1
  /\ evPc' = [s \in Sessions |->
                IF s \in Snapshot(eventCallbacks)
                  THEN [evPc[s] EXCEPT ![emitted + 1] = "start"]
                  ELSE evPc[s]]
  /\ UNCHANGED <<hwPc, cancelled, unsubField, unsubCalls, eventCallbacks,
                 connections, mu, send, enqN, chanClosed, closers, sockClosed,
                 written, rpPc, frames, wpPc, wpBuf, cmdPc, closePc, bcVars,
                 sdVars, crashed>>

(* ---- Connection.handleEvent (handler.go:273-285) ---- *)
(* The callback goroutine starts: first select of sendMessage.             *)
EvStart(s, e) ==
  /\ ~crashed
  /\ UNCHANGED srvVars
  /\ evPc[s][e] = "start"
  /\ evPc' = [evPc EXCEPT ![s][e] = SendCheckPc(s)]
  /\ UNCHANGED <<hwPc, cancelled, unsubField, unsubCalls, eventCallbacks,
                 connections, mu, send, enqN, chanClosed, closers, sockClosed,
                 written, rpPc, frames, wpPc, wpBuf, cmdPc, emitted, closePc,
                 bcVars, sdVars, crashed>>

(* Second select of sendMessage; a failure is only logged.                 *)
EvSend(s, e) ==
  /\ ~crashed
  /\ UNCHANGED srvVars
  /\ evPc[s][e] = "select"
  /\ \E o \in SendOutcomes :
       /\ SendSelect(s, Stamp(s, "event", e, 0), o)
       /\ evPc' = [evPc EXCEPT ![s][e] = o]
  /\ UNCHANGED <<hwPc, cancelled, unsubField, unsubCalls, eventCallbacks,
                 connections, mu, chanClosed, closers, sockClosed, written,
                 rpPc, frames, wpPc, wpBuf, cmdPc, emitted, closePc, bcVars,
                 sdVars>>

(* ---- Handler.BroadcastEvent (handler.go:122-140) ---- *)
(* Lines 129-130: the read lock is taken and held until the call returns.  *)
BCStart ==
  /\ ~crashed
  /\ UNCHANGED srvVars
  /\ bcPc = "idle" /\ bcCount < MaxBroadcasts
  /\ mu.w = NoOne
  /\ mu' = [mu EXCEPT !.r = @ \cup {"bc"}]
  /\ bcTodo' = connections
  /\ bcCount' = bcCount + 1
  /\ bcPc' = "loop"
  /\ UNCHANGED <<hwPc, cancelled, unsubField, unsubCalls, eventCallbacks,
                 connections, send, enqN, chanClosed, closers, sockClosed,
                 written, rpPc, frames, wpPc, wpBuf, cmdPc, emitted, evPc,
                 closePc, bcCur, sdVars, crashed>>

(* Lines 133-134: the select enqueues on a queue that has room.  (c.send   *)
(* is closed only after the session left the table, which needs the write  *)
(* lock, so the channel of a session met here is open.)                    *)
BCEnqueue(s) ==
  /\ ~crashed
  /\ UNCHANGED srvVars
  /\ bcPc = "loop" /\ s \in bcTodo
  /\ ~chanClosed[s] /\ Len(send[s]) < QueueCap
  /\ send' = [send EXCEPT ![s] = Append(@, Stamp(s, "bcast", bcCount, 0))]
  /\ enqN' = [enqN EXCEPT ![s] = @ + 1]
  /\ bcTodo' = bcTodo \ {s}
  /\ UNCHANGED <<hwPc, cancelled, unsubField, unsubCalls, eventCallbacks,
                 connections, mu, chanClosed, closers, sockClosed, written,
                 rpPc, frames, wpPc, wpBuf, cmdPc, emitted, evPc, closePc,
                 bcPc, bcCur, bcCount, sdVars, crashed>>

(* Lines 135-137: the queue is full: conn.close().                         *)
BCCloseFull(s) ==
  /\ ~crashed
  /\ UNCHANGED srvVars
  /\ bcPc = "loop" /\ s \in bcTodo
  /\ ~chanClosed[s] /\ Len(send[s]) >= QueueCap
  /\ bcPc' = IF CloseGate(s) = "ret" THEN "loop" ELSE "closing"
  /\ bcCur' = IF CloseGate(s) = "ret" THEN 0 ELSE s
  /\ bcTodo' = IF CloseGate(s) = "ret" THEN bcTodo \ {s} ELSE bcTodo
  /\ closePc' = ClosePcAfterGate(BC, s)
  /\ UNCHANGED <<hwPc, cancelled, unsubField, unsubCalls, eventCallbacks,
                 connections, mu, send, enqN, chanClosed, closers, sockClosed,
                 written, rpPc, frames, wpPc, wpBuf, cmdPc, emitted, evPc,
                 bcCount, sdVars, crashed>>

(* Line 130 (deferred): RUnlock.                                           *)
BCEnd ==
  /\ ~crashed
  /\ UNCHANGED srvVars
  /\ bcPc = "loop" /\ bcTodo = {}
  /\ mu' = [mu EXCEPT !.r = @ \ {"bc"}]
  /\ bcPc' = "idle"
  /\ UNCHANGED <<hwPc, cancelled, unsubField, unsubCalls, eventCallbacks,
                 connections, send, enqN, chanClosed, closers, sockClosed,
                 written, rpPc, frames, wpPc, wpBuf, cmdPc, emitted, evPc,
                 closePc, bcTodo, bcCur, bcCount, sdVars, crashed>>

(* ---- Handler.GetConnectionCount (handler.go:143-147) ---- *)
GetConnectionCount == Cardinality(connections)

(* ---- Handler.Shutdown (handler.go:150-160) ---- *)
(* Lines 151-152: the write lock is taken and held until the call returns. *)
SDStart ==
  /\ ~crashed
  /\ UNCHANGED srvVars
  /\ sdPc = "idle"
  /\ MuFree
  /\ mu' = [mu EXCEPT !.w = "sd"]
  /\ sdTodo' = connections
  /\ sdSeen' = connections
  /\ sdPc' = "loop"
  /\ UNCHANGED <<hwPc, cancelled, unsubField, unsubCalls, eventCallbacks,
                 connections, send, enqN, chanClosed, closers, sockClosed,
                 written, rpPc, frames, wpPc, wpBuf, cmdPc, emitted, evPc,
                 closePc, bcVars, sdCur, crashed>>

(* Lines 154-156: conn.close() for a registered session.                   *)
SDEach(s) ==
  /\ ~crashed
  /\ UNCHANGED srvVars
  /\ sdPc = "loop" /\ s \in sdTodo
  /\ sdPc' = IF CloseGate(s) = "ret" THEN "loop" ELSE "closing"
  /\ sdCur' = IF CloseGate(s) = "ret" THEN 0 ELSE s
  /\ sdTodo' = IF CloseGate(s) = "ret" THEN sdTodo \ {s} ELSE sdTodo
  /\ closePc' = ClosePcAfterGate(SD, s)
  /\ UNCHANGED <<hwPc, cancelled, unsubField, unsubCalls, eventCallbacks,
                 connections, mu, send, enqN, chanClosed, closers, sockClosed,
                 written, rpPc, frames, wpPc, wpBuf, cmdPc, emitted, evPc,
                 bcVars, sdSeen, crashed>>

(* Lines 158-160: the table is replaced by an empty one; Unlock.           *)
SDEnd ==
  /\ ~crashed
  /\ UNCHANGED srvVars
  /\ sdPc = "loop" /\ sdTodo = {}
  /\ connections' = {}
  /\ mu' = [mu EXCEPT !.w = NoOne]
  /\ sdPc' = "done"
  /\ UNCHANGED <<hwPc, cancelled, unsubField, unsubCalls, eventCallbacks, send,
                 enqN, chanClosed, closers, sockClosed, written, rpPc, frames,
                 wpPc, wpBuf, cmdPc, emitted, evPc, closePc, bcVars, sdTodo,
                 sdCur, sdSeen, crashed>>

(* ---- Server.Subscribe and its closure on their own (server.go:248-267) ---- *)
(* Lines 249-253: a generated id, unique, and the append under eventMu.    *)
SrvSubscribe ==
  /\ subIssued < MaxSubs
  /\ subIssued' = subIssued + 1
  /\ eventCallbacks' = Subscribe(eventCallbacks, subIssued + 1)
  /\ UNCHANGED <<extVars, wsVars, unsubCount, nodeVars, cmdVars>>

(* Lines 256-266: the closure returned for id i is invoked, whatever has   *)
(* been subscribed or unsubscribed since.                                  *)
SrvUnsubscribe(i) ==
  /\ i <= subIssued
  /\ unsubCount[i] < MaxUnsubs
  /\ unsubCount' = [unsubCount EXCEPT ![i] = @ + 1]
  /\ eventCallbacks' = Unsubscribe(eventCallbacks, i)
  /\ UNCHANGED <<extVars, wsVars, subIssued, nodeVars, cmdVars>>

(* ---- integers, JSON decoding and parseNodeID (server.go:546-576) ---- *)
(* A Go int or int64 is kept as its sign and the decimal digits of its     *)
(* magnitude, without leading zeros, so that identifiers keep their full   *)
(* 64-bit range.                                                           *)
Digits == {"0", "1", "2", "3", "4", "5", "6", "7", "8", "9"}

DigitVal(c) ==
  CASE c = "0" -> 0 [] c = "1" -> 1 [] c = "2" -> 2 [] c = "3" -> 3 [] c = "4" -> 4
    [] c = "5" -> 5 [] c = "6" -> 6 [] c = "7" -> 7 [] c = "8" -> 8 [] c = "9" -> 9

DigitChar(n) == CHOOSE c \in Digits : DigitVal(c) = n

IntOf(neg, d) == [neg |-> neg /\ d # <<"0">>, d |-> d]

Small(n) == IntOf(FALSE, <<DigitChar(n)>>)

(* 2^53 = 9007199254740992: up to it every integer is a float64.           *)
TwoTo53 == <<"9", "0", "0", "7", "1", "9", "9", "2", "5", "4", "7", "4", "0", "9", "9", "2">>

(* 2^63 - 1 = 9223372036854775807, the largest int64.                      *)
MaxInt64 ==
  <<"9", "2", "2", "3", "3", "7", "2", "0", "3", "6", "8", "5", "4", "7", "7", "5", "8", "0", "7">>

RECURSIVE LexLE(_, _)
LexLE(a, b) ==
  IF a = <<>> THEN TRUE
  ELSE IF Head(a) = Head(b) THEN LexLE(Tail(a), Tail(b))
  ELSE DigitVal(Head(a)) < DigitVal(Head(b))

(* a <= b for two magnitudes without leading zeros.                        *)
DecLE(a, b) == IF Len(a) = Len(b) THEN LexLE(a, b) ELSE Len(a) < Len(b)

Front(d) == SubSeq(d, 1, Len(d) - 1)
Last(d) == d[Len(d)]

RECURSIVE Succ(_)
Succ(d) ==
  IF d = <<>> THEN <<"1">>
  ELSE IF Last(d) = "9" THEN Succ(Front(d)) \o <<"0">>
  ELSE Front(d) \o <<DigitChar(DigitVal(Last(d)) + 1)>>

RECURSIVE Pred(_)
Pred(d) ==
  IF Last(d) = "0" THEN Pred(Front(d)) \o <<"9">>
  ELSE Front(d) \o <<DigitChar(DigitVal(Last(d)) - 1)>>

(* The float64 nearest to an integer below 2^54, ties to the even          *)
(* mantissa, as strconv.ParseFloat rounds a JSON number: exact up to 2^53, *)
(* a multiple of two above it.                                             *)
RoundToFloat64(d) ==
  IF DecLE(d, TwoTo53) THEN d
  ELSE LET r == (10 * DigitVal(d[Len(d) - 1]) + DigitVal(Last(d))) % 4
       IN IF r = 1 THEN Pred(d) ELSE IF r = 3 THEN Succ(d) ELSE d

(* A value of the argument bag: its Go type; for a number the sign, the    *)
(* digits of the whole part and whether a half follows; for a string its   *)
(* characters.                                                             *)
Val(type, neg, d, half, str) == [t |-> type, neg |-> neg, d |-> d, half |-> half, s |-> str]

(* A value of a JSON text: a number literal (whole part below 2^54, with   *)
(* or without the fraction .5, the fraction only on a whole part below     *)
(* 2^52), a string, or one of the other JSON types.                        *)
Wire(type, neg, d, half, str) == [t |-> type, neg |-> neg, d |-> d, half |-> half, s |-> str]

(* handler.go:192: json.Unmarshal into map[string]interface{} turns every  *)
(* number into a float64, a string into a string, and the rest into bool,  *)
(* nil, []interface{} or map[string]interface{}.                           *)
Decode(w) ==
  CASE w.t = "number" -> Val("float64", w.neg, RoundToFloat64(w.d), w.half, <<>>)
    [] w.t = "string" -> Val("string", FALSE, <<"0">>, FALSE, w.s)
    [] w.t = "true" -> Val("bool", FALSE, <<"0">>, FALSE, <<>>)
    [] w.t = "null" -> Val("nil", FALSE, <<"0">>, FALSE, <<>>)
    [] OTHER -> Val(w.t, FALSE, <<"0">>, FALSE, <<>>)

(* Line 553: int(t) of a float64 drops the fraction, towards zero.         *)
Truncate(v) == IntOf(v.neg, v.d)

RECURSIVE StripZeros(_)
StripZeros(str) ==
  IF Len(str) > 1 /\ Head(str) = "0" THEN StripZeros(Tail(str)) ELSE str

(* strconv.ParseUint in base 10, as json.Number.Int64 calls it: at least   *)
(* one character, and every character a digit.                             *)
ParseDigits(str) ==
  IF str # <<>> /\ \A i \in 1..Len(str) : str[i] \in Digits
  THEN [ok |-> TRUE, d |-> StripZeros(str)]
  ELSE [ok |-> FALSE, d |-> <<"0">>]

(* Lines 561/569: json.Number.Int64, that is strconv.ParseInt(s, 10, 64):  *)
(* an optional sign, then digits only, and a value within int64.           *)
ParseInt(str) ==
  IF str = <<>> THEN [ok |-> FALSE, v |-> Small(0)]
  ELSE LET signed == Head(str) \in {"+", "-"}
           neg == Head(str) = "-"
           u == ParseDigits(IF signed THEN Tail(str) ELSE str)
       IN IF u.ok /\ DecLE(u.d, IF neg THEN Succ(MaxInt64) ELSE MaxInt64)
          THEN [ok |-> TRUE, v |-> IntOf(neg, u.d)]
          ELSE [ok |-> FALSE, v |-> Small(0)]

ParsedId(n) == [ok |-> TRUE, id |-> n, err |-> NoErr]
ParseFailed(e) == [ok |-> FALSE, id |-> Small(0), err |-> e]

(* The argument bag is <<>> when it has no node_id key (a nil map too),    *)
(* and <<v>> when it maps node_id to v.                                    *)
parseNodeID(args) ==
  IF args = <<>> THEN ParseFailed("missing required parameter: node_id")
  ELSE LET v == args[1] IN
    CASE v.t = "float64" -> ParsedId(Truncate(v))
      [] v.t \in {"int", "int64"} -> ParsedId(IntOf(v.neg, v.d))
      [] v.t \in {"json.Number", "string"} ->
           IF ParseInt(v.s).ok THEN ParsedId(ParseInt(v.s).v)
           ELSE ParseFailed("invalid node_id")
      [] OTHER -> ParseFailed("invalid node_id: unsupported type")

(* ---- HandleCommand and its handlers (server.go:223-368) ---- *)
Ok(r) == [result |-> r, err |-> NoErr]
Failed(e) == [result |-> Nil, err |-> e]

(* The APICommand constants of models/types.go:27-53.                      *)
APICommands ==
  {"start_listening", "diagnostics", "server_info", "get_nodes", "get_node",
   "commission_with_code", "commission_on_network", "set_wifi_credentials",
   "set_thread_dataset", "open_commissioning_window", "discover",
   "interview_node", "device_command", "remove_node", "get_vendor_names",
   "read_attribute", "write_attribute", "ping_node", "get_node_ip_addresses",
   "import_test_node", "check_node_update", "update_node",
   "set_default_fabric_label", "set_acl_entry", "set_node_binding"}

(* Variant of GetServerInfo: the value is built anew from the default      *)
(* configuration instead of read from the server.                          *)
GetServerInfoDefault ==
  [kind |-> "info", info |-> ServerInfoOf(Config(1, 0 - 1, FALSE))]

(* server.go:270-272: GetServerInfo returns the struct by value.          *)
GetServerInfo == [kind |-> "info", info |-> serverInfo]

handleServerInfo == Ok(GetServerInfo)

(* Lines 297-301: one struct copy per entry of the map, in a non-nil slice. *)
handleGetNodes(nm) == Ok([kind |-> "nodes", list |-> {nm[k] : k \in DOMAIN nm}])

(* Variant of handleGetNode: a missing node yields a zero record AND the   *)
(* error.                                                                  *)
handleGetNodeZeroRecord(args, nm) ==
  LET p == parseNodeID(args) IN
  IF ~p.ok THEN Failed(p.err)
  ELSE IF p.id \notin DOMAIN nm
    THEN [result |-> [kind |-> "node", rec |-> NoRecord], err |-> "not found"]
  ELSE Ok([kind |-> "node", rec |-> nm[p.id]])

handleGetNode(args, nm) ==
  LET p == parseNodeID(args) IN
  IF ~p.ok THEN Failed(p.err)
  ELSE IF p.id \notin DOMAIN nm THEN Failed("not found")
  ELSE Ok([kind |-> "node", rec |-> nm[p.id]])

handleServerDiagnostics(nm) ==
  Ok([kind |-> "diagnostics", info |-> serverInfo,
      nodes |-> handleGetNodes(nm).result.list, events |-> <<>>])

handleStartListening(nm) == handleGetNodes(nm)

(* Variant of handlePingNode: answers without looking the node up.         *)
handlePingNodeNoLookup(args, nm) ==
  LET p == parseNodeID(args) IN
  IF ~p.ok THEN Failed(p.err) ELSE Ok([kind |-> "ping", reachable |-> TRUE])

handlePingNode(args, nm) ==
  LET p == parseNodeID(args) IN
  IF ~p.ok THEN Failed(p.err)
  ELSE IF p.id \notin DOMAIN nm THEN Failed("not found")
  ELSE Ok([kind |-> "ping", reachable |-> TRUE])

(* Variant of HandleCommand: a seventh name, discover, is dispatched.      *)
HandleCommandWithDiscover(name, args, nm) ==
  CASE name = "server_info" -> handleServerInfo
    [] name \in {"get_nodes", "discover"} -> handleGetNodes(nm)
    [] name = "get_node" -> handleGetNode(args, nm)
    [] name = "diagnostics" -> handleServerDiagnostics(nm)
    [] name = "start_listening" -> handleStartListening(nm)
    [] name = "ping_node" -> handlePingNode(args, nm)
    [] OTHER -> Failed("unknown command")

HandleCommand(name, args, nm) ==
  CASE name = "server_info" -> handleServerInfo
    [] name = "get_nodes" -> handleGetNodes(nm)
    [] name = "get_node" -> handleGetNode(args, nm)
    [] name = "diagnostics" -> handleServerDiagnostics(nm)
    [] name = "start_listening" -> handleStartListening(nm)
    [] name = "ping_node" -> handlePingNode(args, nm)
    [] OTHER -> Failed("unknown command")

(* server.go:437-452 over storage.GetNodes (storage.go GetNodes): one      *)
(* struct copy per stored record, entered under the copy's own NodeID.     *)
StoredRecords(st) == {st[k] : k \in DOMAIN st}

LoadNodes(st) ==
  [k \in {r.node_id : r \in StoredRecords(st)} |->
     CHOOSE r \in StoredRecords(st) : r.node_id = k]

(* ---- commands against a loaded registry ---- *)
(* The command names a client may send: every APICommand constant and      *)
(* three names that are none of them.                                      *)
CommandNames == APICommands \union {"", "invalid_command", "GET_NODES"}

ArgStrings ==
  {<<>>, <<"0">>, <<"1">>, <<"2">>, <<"0", "1">>, <<"1", "0">>,
   <<"+", "1">>, <<"-", "1">>, <<"-">>, <<"1", ".", "0">>, <<"1", ".", "5">>,
   <<" ", "1">>, <<"1", " ">>, <<"1", "e", "0">>, <<"a">>, <<"0", "x", "1">>,
   TwoTo53, Succ(TwoTo53), MaxInt64, Succ(MaxInt64), <<"-">> \o Succ(MaxInt64),
   <<"-">> \o Succ(Succ(MaxInt64))}

(* The whole numbers a client names: small ones and the ones around 2^53.  *)
ArgWholes ==
  {<<"0">>, <<"1">>, <<"2">>, TwoTo53, Succ(TwoTo53), Succ(Succ(TwoTo53)),
   Succ(Succ(Succ(TwoTo53)))}

WireValues ==
  {Wire("number", neg, d, FALSE, <<>>) : neg \in BOOLEAN, d \in ArgWholes}
    \union {Wire("number", neg, d, TRUE, <<>>) : neg \in BOOLEAN, d \in {<<"0">>, <<"1">>}}
    \union {Wire("string", FALSE, <<"0">>, FALSE, str) : str \in ArgStrings}
    \union {Wire(ty, FALSE, <<"0">>, FALSE, <<>>) : ty \in {"true", "null", "array", "object"}}

(* What the node_id key can hold: what Decode makes of a JSON value, and   *)
(* what an in-process caller puts there, a Go integer or a json.Number.    *)
ArgValues ==
  {Decode(w) : w \in WireValues}
    \union {Val(ty, FALSE, d, FALSE, <<>>) : ty \in {"int", "int64"}, d \in ArgWholes}
    \union {Val("json.Number", FALSE, <<"0">>, FALSE, str) : str \in ArgStrings}

ArgBags == {<<>>} \union {<<v>> : v \in ArgValues}

(* The identifiers of the nodes: a small one, 2^53 and 2^53 + 1, then      *)
(* further small ones.                                                     *)
NodeId(k) ==
  CASE k = 1 -> Small(1)
    [] k = 2 -> IntOf(FALSE, TwoTo53)
    [] k = 3 -> IntOf(FALSE, Succ(TwoTo53))
    [] OTHER -> Small(k - 2)

(* The storage's map after Start: any set of node records, each under its  *)
(* own identifier, as SaveNode enters them.                                *)
StoredMapsOf(ks) ==
  {[i \in {NodeId(k) : k \in S} |->
      LET k == CHOOSE j \in S : NodeId(j) = i
      IN Record(i, TRUE, 2 * k - 1, 2 * k)] : S \in SUBSET ks}

StoredMaps == StoredMapsOf(NodeIds)

InitCommands ==
  /\ InitWs
  /\ eventCallbacks = <<>>
  /\ subIssued = 0
  /\ unsubCount = [i \in SubIds |-> 0]
  /\ stNodes \in StoredMaps
  /\ nodes = <<>>
  /\ heap = [r \in 1..(2 * MaxNodes) |-> 0]
  /\ held = NoRecord
  /\ lastCmd = NoCall
  /\ lastOut = NoOut
  /\ InitExt

(* Run, server.go:165: loadNodes fills the registry from the storage.      *)
SrvLoadNodes ==
  /\ DOMAIN nodes = {}
  /\ DOMAIN stNodes # {}
  /\ nodes' = LoadNodes(stNodes)
  /\ UNCHANGED <<extVars, wsVars, eventCallbacks, subVars, stNodes, heap, held, cmdVars>>

(* One call of HandleCommand: it reads the registry and writes nothing.    *)
(* lastCmd and lastOut are the caller's record of the call and its return. *)
SrvHandleCommand ==
  \E name \in CommandNames, args \in ArgBags :
    /\ lastCmd = NoCall
    /\ lastCmd' = [name |-> name, args |-> args]
    /\ lastOut' = HandleCommand(name, args, nodes)
    /\ UNCHANGED <<extVars, wsVars, eventCallbacks, subVars, nodeVars>>

(* The caller is done with the returned values and may call again.        *)
SrvReturn ==
  /\ lastCmd # NoCall
  /\ lastCmd' = NoCall
  /\ lastOut' = NoOut
  /\ UNCHANGED <<extVars, wsVars, eventCallbacks, subVars, nodeVars>>

NextCommands == SrvLoadNodes \/ SrvHandleCommand \/ SrvReturn

SpecCommands == InitCommands /\ [][NextCommands]_vars

(* ---- node records handed across the storage and server boundary ---- *)
(* The heap holds what a record's two reference fields point to: the       *)
(* attribute map and the backing array of the subscription slice. A struct *)
(* copy (nodeCopy := *node) copies the references, not what they point to. *)
InitCopies ==
  /\ InitWs
  /\ eventCallbacks = <<>>
  /\ subIssued = 0
  /\ unsubCount = [i \in SubIds |-> 0]
  /\ stNodes \in StoredMapsOf(1..CopyNodes)
  /\ nodes = <<>>
  /\ heap = [r \in 1..(2 * CopyNodes) |-> 0]
  /\ held = NoRecord
  /\ lastCmd = NoCall
  /\ lastOut = NoOut
  /\ InitExt

(* What a reader of the record sees: its fields and the contents of its    *)
(* attribute map and subscription list.                                    *)
View(rec) ==
  [node_id |-> rec.node_id, available |-> rec.available,
   attrs |-> heap[rec.attrs], subs |-> heap[rec.subs]]

RegistryView == [i \in DOMAIN nodes |-> View(nodes[i])]
StorageView == [i \in DOMAIN stNodes |-> View(stNodes[i])]

(* A caller builds a record of its own, with a fresh map and a fresh list. *)
CallerNew(k) ==
  /\ Len(heap) < 2 * CopyNodes + 2 * MaxRecords
  /\ held' = Record(NodeId(k), FALSE, Len(heap) + 1, Len(heap) + 2)
  /\ heap' = heap \o <<0, 0>>
  /\ UNCHANGED <<extVars, wsVars, eventCallbacks, subVars, nodes, stNodes, cmdVars>>

(* SaveNode: the map with a struct copy of the caller's record entered     *)
(* under its NodeID.                                                       *)
SavedInto(st, rec) ==
  [i \in DOMAIN st \union {rec.node_id} |->
     IF i = rec.node_id THEN rec ELSE st[i]]

(* storage.go SaveNode: a struct copy of the caller's record is entered    *)
(* under its NodeID and the file is rewritten.                             *)
StSaveNode ==
  /\ held # NoRecord
  /\ stNodes' = SavedInto(stNodes, held)
  /\ stFile' = FileOf(stNodes', heap)
  /\ UNCHANGED <<runVars, mdnsVars, codecVars, zoneVars, stPc, moreVars,
                 wsVars, eventCallbacks, subVars, nodes, heap, held, cmdVars>>

(* storage.go GetNode: a struct copy of the stored record, or an error.    *)
StGetNode(k) ==
  /\ held' = IF NodeId(k) \in DOMAIN stNodes THEN stNodes[NodeId(k)] ELSE NoRecord
  /\ held' # held
  /\ UNCHANGED <<extVars, wsVars, eventCallbacks, subVars, nodes, stNodes, heap, cmdVars>>

(* storage.go GetNodes: a struct copy of every stored record; the caller   *)
(* keeps one of them.                                                      *)
StGetNodes ==
  \E r \in StoredRecords(stNodes) :
    /\ held' = r
    /\ held' # held
    /\ UNCHANGED <<extVars, wsVars, eventCallbacks, subVars, nodes, stNodes, heap, cmdVars>>

(* get_nodes, get_node and diagnostics through HandleCommand; the caller   *)
(* keeps the record of one node out of the result.                         *)
RecordsOf(out) ==
  CASE out.result.kind = "node" -> {out.result.rec}
    [] out.result.kind = "nodes" -> out.result.list
    [] out.result.kind = "diagnostics" -> out.result.nodes
    [] OTHER -> {}

SrvLookup(name) ==
  \E i \in DOMAIN nodes :
    \E r \in RecordsOf(HandleCommand(name, <<Val("int", FALSE, i.d, FALSE, <<>>)>>, nodes)) :
      /\ r.node_id = i
      /\ held' = r
      /\ held' # held
      /\ UNCHANGED <<extVars, wsVars, eventCallbacks, subVars, nodes, stNodes, heap, cmdVars>>

(* The caller writes the record it holds: a field held by value, an entry  *)
(* of the attribute map, an element of the subscription list.              *)
CallerSetAvailable ==
  /\ held # NoRecord
  /\ held' = [held EXCEPT !.available = ~@]
  /\ UNCHANGED <<extVars, wsVars, eventCallbacks, subVars, nodes, stNodes, heap, cmdVars>>

CallerSetAttr ==
  /\ held # NoRecord
  /\ heap' = [heap EXCEPT ![held.attrs] = 1 - @]
  /\ UNCHANGED <<extVars, wsVars, eventCallbacks, subVars, nodes, stNodes, held, cmdVars>>

CallerSetSub ==
  /\ held # NoRecord
  /\ heap' = [heap EXCEPT ![held.subs] = 1 - @]
  /\ UNCHANGED <<extVars, wsVars, eventCallbacks, subVars, nodes, stNodes, held, cmdVars>>

NextCopies ==
  \/ SrvLoadNodes
  \/ \E k \in 1..CopyNodes : CallerNew(k)
  \/ StSaveNode
  \/ \E k \in 1..CopyNodes : StGetNode(k)
  \/ StGetNodes
  \/ \E name \in {"get_nodes", "get_node", "diagnostics"} : SrvLookup(name)
  \/ CallerSetAvailable
  \/ CallerSetAttr
  \/ CallerSetSub

SpecCopies == InitCopies /\ [][NextCopies]_vars

(* ---- the server from New to serving requests ---- *)
Configs == {Config(f, a, FALSE) : f \in 1..MaxFabric, a \in {0 - 1, 0}}

InitRun ==
  /\ InitWs
  /\ eventCallbacks = <<>>
  /\ subIssued = 0
  /\ unsubCount = [i \in SubIds |-> 0]
  /\ stNodes \in StoredMapsOf(1..CopyNodes)
  /\ nodes = <<>>
  /\ heap = [r \in 1..(2 * CopyNodes) |-> 0]
  /\ held = NoRecord
  /\ lastCmd = NoCall
  /\ lastOut = NoOut
  /\ cfg \in Configs
  /\ serverInfo = ServerInfoOf(cfg)
  /\ runPc = "new"
  /\ InitMdns
  /\ InitRest

(* Run, server.go:151-209: the storage is started, loadNodes fills the     *)
(* registry, and the HTTP server listens.                                  *)
RunStart ==
  /\ runPc = "new"
  /\ runPc' = IF mdnsPc = "none" THEN "serving" ELSE "startMdns"
  /\ nodes' = LoadNodes(stNodes)
  /\ UNCHANGED <<wsVars, eventCallbacks, subVars, stNodes, heap, held, cmdVars,
                 cfg, serverInfo, mdnsVars, restVars>>

(* The routes of setupRouter (server.go:381-384) and their handlers        *)
(* (400-422): writeJSON of the server info, of handleGetNodes and of       *)
(* handleServerDiagnostics.                                                *)
Routes == {"/api/info", "/api/nodes", "/api/diagnostics"}

HttpHandler(route) ==
  CASE route = "/api/info" -> Ok([kind |-> "info", info |-> serverInfo])
    [] route = "/api/nodes" -> handleGetNodes(nodes)
    [] route = "/api/diagnostics" -> handleServerDiagnostics(nodes)

HttpGet(route) ==
  /\ runPc = "serving"
  /\ lastCmd = NoCall
  /\ lastCmd' = [name |-> route, args |-> <<>>]
  /\ lastOut' = HttpHandler(route)
  /\ UNCHANGED <<wsVars, eventCallbacks, subVars, nodeVars, extVars>>

(* handler.go:100-112: a client connects and is sent GetServerInfo().      *)
WsConnect ==
  /\ runPc = "serving"
  /\ lastCmd = NoCall
  /\ lastCmd' = [name |-> "connect", args |-> <<>>]
  /\ lastOut' = Ok(GetServerInfo)
  /\ UNCHANGED <<wsVars, eventCallbacks, subVars, nodeVars, extVars>>

(* A command of a connected client, or of an in-process caller.            *)
WsRequest(name) ==
  /\ lastCmd = NoCall
  /\ lastCmd' = [name |-> name, args |-> <<>>]
  /\ lastOut' = HandleCommand(name, <<>>, nodes)
  /\ UNCHANGED <<wsVars, eventCallbacks, subVars, nodeVars, extVars>>

NextRun ==
  \/ RunStart
  \/ \E k \in 1..CopyNodes : CallerNew(k)
  \/ StSaveNode
  \/ \E route \in Routes : HttpGet(route)
  \/ WsConnect
  \/ \E name \in {"server_info", "get_nodes", "diagnostics"} : WsRequest(name)
  \/ SrvReturn

SpecRun == InitRun /\ [][NextRun]_vars

(* ---- the system ---- *)
Close(t) ==
  \/ CloseCallUnsub(t) \/ CloseClearUnsub(t) \/ CloseCancel(t)
  \/ CloseDelete(t) \/ CloseFinish(t)

Accept(s) == HWCreate(s) \/ HWRegister(s) \/ HWSendInfo(s) \/ HWSendInfoFail(s)

ReadLoop(s) == RPCheck(s) \/ RPReadError(s)

ReadFrames(s) == RPReadCommand(s) \/ RPReadBad(s) \/ RPErrSelect(s)

Commands(s) == \E m \in FrameIds : CmdRun(s, m) \/ CmdSendResult(s, m) \/ CmdSendError(s, m)

WriteLoop(s) == WPCtxDone(s) \/ WPRecvClosed(s) \/ WPPingFail(s)

WriteFrames(s) == WPRecv(s) \/ WPWrite(s) \/ WPWriteFail(s)

Callbacks(s) == \E e \in EventIds : EvStart(s, e) \/ EvSend(s, e)

Broadcast == BCStart \/ BCEnd \/ \E s \in Sessions : BCEnqueue(s) \/ BCCloseFull(s)

Shutdown == SDStart \/ SDEnd \/ \E s \in Sessions : SDEach(s)

(* The whole system: every goroutine, every input.                         *)
Next ==
  \/ \E s \in Sessions :
       \/ Accept(s) \/ UpstreamCancel(s)
       \/ ReadLoop(s) \/ ReadFrames(s) \/ Commands(s)
       \/ WriteLoop(s) \/ WriteFrames(s)
       \/ Callbacks(s)
       \/ CloserRun(s)
  \/ \E t \in CloseCallers : Close(t)
  \/ EmitEvent
  \/ Broadcast
  \/ Shutdown

Spec == Init /\ [][Next]_vars

(* The session life cycle: connections are accepted, their pumps end on    *)
(* transport errors or cancellation, the handler is shut down.  No frame   *)
(* is read and no event is published.                                      *)
NextClose ==
  \/ \E s \in Sessions :
       \/ Accept(s) \/ UpstreamCancel(s)
       \/ ReadLoop(s) \/ WriteLoop(s)
       \/ CloserRun(s)
  \/ \E t \in CloseCallers : Close(t)
  \/ Shutdown

SpecClose == Init /\ [][NextClose]_vars

(* The traffic of FlowSessions clients: each sends frames, FlowEvents      *)
(* events are published, and the session ends on a transport error or      *)
(* cancellation.                                                           *)
FlowEmit == emitted < FlowEvents /\ EmitEvent

NextFlow ==
  \/ \E s \in 1..FlowSessions :
       \/ Accept(s) \/ UpstreamCancel(s)
       \/ ReadLoop(s) \/ ReadFrames(s) \/ Commands(s)
       \/ WriteLoop(s) \/ WriteFrames(s)
       \/ Callbacks(s)
       \/ CloserRun(s)
  \/ \E t \in CloseCallers : Close(t)
  \/ FlowEmit

SpecFlow == Init /\ [][NextFlow]_vars

(* Event fan-out: the clients send nothing and their reads stay blocked,   *)
(* events are published, the write pumps drain the queues or fail.        *)
NextEvents ==
  \/ \E s \in Sessions :
       \/ Accept(s)
       \/ WPPingFail(s) \/ WriteFrames(s)
       \/ Callbacks(s)
       \/ CloserRun(s)
  \/ \E t \in CloseCallers : Close(t)
  \/ EmitEvent

SpecEvents == Init /\ [][NextEvents]_vars

(* Broadcast: the clients send nothing and their reads stay blocked,       *)
(* BroadcastEvent is called, the write pumps drain the queues or fail.    *)
NextBroadcast ==
  \/ \E s \in Sessions :
       \/ Accept(s)
       \/ WPCtxDone(s) \/ WPPingFail(s) \/ WriteFrames(s)
       \/ CloserRun(s)
  \/ \E t \in CloseCallers : Close(t)
  \/ Broadcast

SpecBroadcast == Init /\ [][NextBroadcast]_vars

(* The event bus alone: subscribers come and go, closures are invoked      *)
(* any number of times.                                                    *)
NextSubs ==
  \/ SrvSubscribe
  \/ \E i \in SubIds : SrvUnsubscribe(i)

SpecSubs == Init /\ [][NextSubs]_vars

(* ---- what the claims speak about ---- *)
(* A goroutine is inside close() of session s.                             *)
InClose(s) == \E t \in CloseCallers : closePc[t] # "idle" /\ CloseTarget(t) = s

(* HandleWebSocket has registered session s.                               *)
Accepted(s) == hwPc[s] \in {"registered", "closing", "done"}

(* The messages of session s that are written or waiting, oldest first.    *)
Pending(s) == (IF wpBuf[s] = NoMsg THEN <<>> ELSE <<wpBuf[s]>>) \o send[s]

DataFrames(s) == SelectSeq(written[s], LAMBDA f : f # InfoFrame /\ f # CloseFrame)

Log(s) == Flatten(DataFrames(s)) \o Pending(s)

(* C1: close is single-fire: under every interleaving of close attempts on *)
(* one session its unsubscribe handle is invoked at most once (and exactly *)
(* once when a close got past the gate).                                   *)
C1_UnsubscribeOnce == \A s \in Sessions : unsubCalls[s] <= 1

(* C2: Handler.Shutdown returns: it is never left waiting, inside          *)
(* conn.close(), for the connection-table lock that it holds itself.       *)
C2_ShutdownReturns == ~(sdPc = "closing" /\ closePc[SD] = "lock" /\ mu.w = "sd")

(* C4: a session HandleWebSocket has registered is in the connection table *)
(* if and only if its cancellation scope is not cancelled.                 *)
C4_RegisteredIffOpen ==
  \A s \in Sessions : Accepted(s) => ((s \in connections) <=> ~CtxDone(s))

(* C5: once the scope of a session is cancelled and both its loops have    *)
(* ended with no close in progress, the session has been removed from the  *)
(* table, its unsubscribe handle was invoked and its socket is closed.     *)
C5_CancelTriggersClose ==
  \A s \in Sessions :
    (CtxDone(s) /\ rpPc[s] = "done" /\ wpPc[s] = "done" /\ ~InClose(s))
      => (s \notin connections /\ unsubCalls[s] >= 1 /\ sockClosed[s])

(* C3: Handler.BroadcastEvent returns: it is never left waiting, inside    *)
(* conn.close() of a session whose queue is full, for the write lock of    *)
(* the connection table while it holds the read lock itself.               *)
C3_BroadcastReturns == ~(bcPc = "closing" /\ closePc[BC] = "lock" /\ "bc" \in mu.r)

(* C6: a subscribed session whose queue could not take a published event   *)
(* (the callback ended with a send timeout) is closed and removed from the *)
(* connection table, once its callbacks have ended.                        *)
C6_BackpressureCloses ==
  \A s \in Sessions :
    ( /\ Accepted(s)
      /\ \E e \in EventIds : evPc[s][e] = "timeout"
      /\ \A e \in EventIds : evPc[s][e] \notin {"start", "select"}
      /\ ~InClose(s) )
      => (s \notin connections /\ CtxDone(s))

(* C9: on one session, events are enqueued in the order in which they were *)
(* published.                                                              *)
C9_EventsInPublishOrder ==
  \A s \in Sessions :
    \A i, j \in 1..Len(Log(s)) :
      (i < j /\ Log(s)[i].kind = "event" /\ Log(s)[j].kind = "event")
        => Log(s)[i].id < Log(s)[j].id

ResultKinds == {"result", "error"}

Results(t, s, m) ==
  SelectSeq(Log(t), LAMBDA x : x.kind \in ResultKinds /\ x.id = m /\ x.src = s)

C10_FirstFrameIsServerInfo ==
  \A s \in Sessions :
    /\ written[s] # <<>> => written[s][1] = InfoFrame
    /\ (rpPc[s] # "off" \/ wpPc[s] # "off") => written[s] # <<>>

(* The server info was written first and an event, the first message ever  *)
(* enqueued on the session, was written after it.                          *)
C10_EventWrittenAfterInfo ==
  \E s \in Sessions :
    /\ Len(written[s]) >= 2
    /\ written[s][1] = InfoFrame
    /\ written[s][2][1].kind = "event"

(* A step of session s that handles a client protocol error: the read loop *)
(* reads a frame that does not decode, or finishes the sendError for it,   *)
(* or handleCommand moves on after Server.HandleCommand or sendError.      *)
BadFrameStep(s) ==
  \/ rpPc[s] = "read" /\ frames'[s] # frames[s] /\ cmdPc'[s] = cmdPc[s]
  \/ rpPc[s] = "errSelect" /\ rpPc'[s] # "errSelect"

ProtocolErrorStep(s) ==
  \/ BadFrameStep(s)
  \/ \E m \in FrameIds : cmdPc[s][m] \in {"run", "errSelect"} /\ cmdPc'[s][m] # cmdPc[s][m]

Error400(s) == [kind |-> "error400", id |-> frames[s], src |-> s, n |-> enqN[s] + 1]

TransportStep(s) ==
  /\ sdPc = "idle" /\ bcPc = "idle"
  /\ \A t \in Sessions : hwPc[t] # "closing"
  /\ \/ rpPc'[s] # rpPc[s]
     \/ wpPc'[s] # wpPc[s]
     \/ closePc'[<<"rp", s>>] # closePc[<<"rp", s>>]
     \/ closePc'[<<"wp", s>>] # closePc[<<"wp", s>>]
     \/ /\ closePc[<<"rp", s>>] = "u2" /\ closePc[<<"wp", s>>] \in {"u2", "u3", "cancel"}
        /\ crashed' # crashed
     \/ /\ closePc[<<"wp", s>>] = "u2" /\ closePc[<<"rp", s>>] \in {"u2", "u3", "cancel"}
        /\ crashed' # crashed

(* What the handler holds for session t: registration, subscription,       *)
(* scope, socket and queue.                                                *)
SessionView(t) ==
  [registered |-> t \in connections,
   subscribed |-> t \in Snapshot(eventCallbacks),
   scope      |-> cancelled[t],
   socket     |-> sockClosed[t],
   queue      |-> send[t]]

(* C12: a transport error on one session closes only that session: the     *)
(* process keeps running and every other session stays registered and      *)
(* subscribed, with its scope, its socket and its queue as they were.      *)
C12_TransportErrorIsLocal ==
  [][\A s \in Sessions :
       TransportStep(s) =>
         /\ ~crashed'
         /\ \A t \in Sessions \ {s} : SessionView(t)' = SessionView(t)]_vars

(* A call of sendMessage on session s ends in this step with outcome o:    *)
(* the position of its caller (an event callback or a command handler)     *)
(* moves from the select to the outcome.                                   *)
SendEnds(s, o) ==
  \/ \E e \in EventIds : evPc[s][e] \in {"start", "select"} /\ evPc'[s][e] = o
  \/ \E m \in FrameIds : cmdPc[s][m] \in {"run", "okSelect", "errSelect"} /\ cmdPc'[s][m] = o

(* A call of sendMessage on session s is at its second select and the step *)
(* is taken by it.                                                         *)
SendSelectStep(s) ==
  \/ \E e \in EventIds : evPc[s][e] = "select" /\ evPc'[s][e] # "select"
  \/ \E m \in FrameIds :
       cmdPc[s][m] \in {"okSelect", "errSelect"} /\ cmdPc'[s][m] # cmdPc[s][m]
  \/ rpPc[s] = "errSelect" /\ rpPc'[s] # "errSelect"

(* C13: sendMessage ends in one of three ways and in no other.  It returns *)
(* "connection closed" only on a cancelled scope and "send timeout" only   *)
(* on a live scope with a full queue, enqueuing nothing in both cases; it  *)
(* returns success exactly when it appended its message once at the end of *)
(* the queue; the process keeps running.  The queue never holds more than  *)
(* its capacity.                                                           *)
C13_ThreeOutcomes ==
  [][\A s \in Sessions :
       /\ Len(send'[s]) <= QueueCap
       /\ SendEnds(s, "closed") => (CtxDone(s) /\ send'[s] = send[s])
       /\ SendEnds(s, "timeout") =>
            (~CtxDone(s) /\ Len(send[s]) = QueueCap /\ send'[s] = send[s])
       /\ SendEnds(s, "sent") =>
            (Len(send'[s]) = Len(send[s]) + 1 /\ SubSeq(send'[s], 1, Len(send[s])) = send[s])
       /\ SendSelectStep(s) =>
            /\ ~crashed'
            /\ SendEnds(s, "sent") \/ rpPc[s] = "errSelect" \/ send'[s] = send[s]]_vars

(* The ids issued so far, in the order of their Subscribe calls.           *)
Issued == [k \in 1..subIssued |-> k]

(* C14: the subscriber list holds, in the order of their Subscribe calls,  *)
(* exactly the subscriptions whose closure was never invoked: Subscribe    *)
(* adds one entry at the end, the first invocation of a closure removes    *)
(* its own entry and no other, every later invocation changes nothing.     *)
C14_OnlyOwnEntryRemoved ==
  eventCallbacks = SelectSeq(Issued, LAMBDA k : unsubCount[k] = 0)

(* The closure of the second subscription was invoked twice, a fourth      *)
(* subscriber was added, and the three others are listed in order.         *)
C14_SecondUnsubscribeNoOp ==
  unsubCount[2] = 2 /\ eventCallbacks = <<1, 3, 4>>

(* Session s is in the subscriber list.                                    *)
Subscribed(s) == \E k \in 1..Len(eventCallbacks) : eventCallbacks[k] = s

(* C15: a call of EmitEvent starts the callback of the new event for every *)
(* subscriber listed at the call and for nobody else, touches no other     *)
(* callback and not the list; and it never waits: as long as events are    *)
(* left to publish EmitEvent can be called, and a started callback can     *)
(* run, whatever the other callbacks are doing.                            *)
C15_EmitStartsOnePerSubscriber ==
  [][/\ emitted' = emitted + 1 =>
          /\ eventCallbacks' = eventCallbacks
          /\ \A s \in Sessions : \A e \in EventIds :
               evPc'[s][e] = IF e = emitted + 1
                               THEN (IF Subscribed(s) THEN "start" ELSE "none")
                               ELSE evPc[s][e]
     /\ (emitted < MaxEvents /\ ~crashed) => ENABLED EmitEvent
     /\ \A s \in Sessions : \A e \in EventIds :
          (evPc[s][e] = "start" /\ ~crashed) => ENABLED EvStart(s, e)]_vars

(* The callback of the first event on session 1 waits on a full queue,     *)
(* while a second event was published and the callback of the first one    *)
(* on session 2 has finished.                                              *)
C15_BlockedCallbackOthersDone ==
  /\ evPc[1][1] = "select" /\ Len(send[1]) = QueueCap
  /\ evPc[2][1] = "sent"
  /\ emitted = 2


(* C16: for each of the six recognized command names, whatever the         *)
(* argument bag and the node map, HandleCommand returns either a non-nil   *)
(* result with a nil error or a nil result with a non-nil error, never     *)
(* both and never neither.                                                 *)
Recognized ==
  {"server_info", "get_nodes", "get_node", "diagnostics", "start_listening", "ping_node"}

C16_ResultXorError ==
  lastCmd.name \in Recognized =>
    ((lastOut.result = Nil) <=> (lastOut.err # NoErr))

(* C16 witness: get_node for an absent node of a loaded registry came back *)
(* with a nil result and the not-found error.                              *)
C16_GetNodeFailedCleanly ==
  /\ lastCmd.name = "get_node"
  /\ DOMAIN nodes # {}
  /\ lastOut.result = Nil
  /\ lastOut.err = "not found"

(* C17: HandleCommand dispatches exactly six names. Every other name, an   *)
(* APICommand constant such as discover or remove_node or the empty string *)
(* included, returns a nil result and the unknown-command error; no call,  *)
(* recognized or not, changes the node registry, the storage, the          *)
(* subscriber list or any session, and none ends the process.              *)
UnknownCommand == [result |-> Nil, err |-> "unknown command"]

CallStep == lastCmd = NoCall /\ lastCmd' # NoCall

C17_ClosedCommandSet ==
  [][/\ Cardinality({n \in CommandNames :
                       HandleCommand(n, <<>>, nodes) # UnknownCommand}) = 6
     /\ CallStep =>
          /\ (lastCmd'.name \notin Recognized) <=> (lastOut' = UnknownCommand)
          /\ UNCHANGED <<extVars, wsVars, eventCallbacks, subVars, nodeVars>>]_vars

(* C17 witness: remove_node for a node of the loaded registry was answered *)
(* with the unknown-command error and the node is still there.             *)
C17_RemoveNodeRejected ==
  /\ lastCmd = [name |-> "remove_node",
                args |-> <<Decode(Wire("number", FALSE, <<"1">>, FALSE, <<>>))>>]
  /\ lastOut = UnknownCommand
  /\ DOMAIN nodes = {NodeId(k) : k \in NodeIds}
  /\ DOMAIN stNodes = DOMAIN nodes

(* C18: get_node and ping_node for an identifier with no record in the     *)
(* registry return the not-found error; ping_node answers reachable only   *)
(* for an identifier that has a record; a successful get_node returns the  *)
(* record whose node_id is the requested identifier. The identifier is the *)
(* integer the node_id value of the argument bag stands for: a Go integer, *)
(* its decimal string, or the float64 equal to it.                         *)
IdsAsked ==
  {Small(0), Small(1), Small(2), IntOf(FALSE, TwoTo53), IntOf(FALSE, Succ(TwoTo53)),
   IntOf(FALSE, Succ(Succ(TwoTo53)))}

FormsOf(n) ==
  {Val("int", FALSE, n.d, FALSE, <<>>), Val("int64", FALSE, n.d, FALSE, <<>>),
   Val("string", FALSE, <<"0">>, FALSE, n.d), Val("json.Number", FALSE, <<"0">>, FALSE, n.d)}
    \union (IF RoundToFloat64(n.d) = n.d
            THEN {Val("float64", FALSE, n.d, FALSE, <<>>)} ELSE {})

C18_LookupByRequestedId ==
  [][\A n \in IdsAsked :
       (/\ CallStep
        /\ lastCmd'.name \in {"get_node", "ping_node"}
        /\ lastCmd'.args \in {<<v>> : v \in FormsOf(n)}) =>
         /\ n \notin DOMAIN nodes => lastOut' = [result |-> Nil, err |-> "not found"]
         /\ n \in DOMAIN nodes => lastOut'.err = NoErr
         /\ (n \in DOMAIN nodes /\ lastCmd'.name = "ping_node") =>
              lastOut'.result = [kind |-> "ping", reachable |-> TRUE]
         /\ (n \in DOMAIN nodes /\ lastCmd'.name = "get_node") =>
              /\ lastOut'.result.kind = "node"
              /\ lastOut'.result.rec.node_id = n
              /\ lastOut'.result.rec = nodes[n]]_vars

(* C18 witness: with node 2^53 loaded and node 1 not, a ping of 1 has      *)
(* failed.                                                                 *)
C18_PingAbsentNotFound ==
  /\ DOMAIN nodes = {NodeId(2)}
  /\ lastCmd = [name |-> "ping_node", args |-> <<Val("string", FALSE, <<"0">>, FALSE, <<"1">>)>>]
  /\ lastOut.err = "not found"

(* C19: get_node and ping_node coerce node_id when it is a number or a     *)
(* string holding a base-10 integer, and a client sending one integer as a *)
(* JSON number and as a JSON string gets the same answer. A missing        *)
(* node_id, a string that is not a base-10 integer and a value of any      *)
(* other type are answered with an error before any lookup, and the call   *)
(* changes no state. A base-10 integer is one of the 64-bit type that node *)
(* identifiers have.                                                       *)
IsDecimalInteger(str) ==
  LET neg == str # <<>> /\ Head(str) = "-"
      body == IF str # <<>> /\ Head(str) \in {"+", "-"} THEN Tail(str) ELSE str
  IN /\ body # <<>>
     /\ \A i \in 1..Len(body) : body[i] \in Digits
     /\ DecLE(StripZeros(body), IF neg THEN Succ(MaxInt64) ELSE MaxInt64)

LookedUp(out) == out.err \in {NoErr, "not found"}

AsNumber(n) == <<Decode(Wire("number", n.neg, n.d, FALSE, <<>>))>>
AsString(n) == <<Decode(Wire("string", FALSE, <<"0">>, FALSE, n.d))>>

C19_NodeIdCoercion ==
  [][(CallStep /\ lastCmd'.name \in {"get_node", "ping_node"}) =>
       /\ lastCmd'.args = <<>> =>
            lastOut' = [result |-> Nil, err |-> "missing required parameter: node_id"]
       /\ lastCmd'.args # <<>> =>
            LET v == lastCmd'.args[1] IN
            /\ v.t \in {"float64", "int", "int64"} => LookedUp(lastOut')
            /\ v.t \in {"string", "json.Number"} =>
                 IF IsDecimalInteger(v.s) THEN LookedUp(lastOut')
                 ELSE lastOut' = [result |-> Nil, err |-> "invalid node_id"]
            /\ v.t \in {"bool", "nil", "array", "object"} =>
                 lastOut' = [result |-> Nil, err |-> "invalid node_id: unsupported type"]
       /\ \A n \in IdsAsked :
            lastCmd'.args \in {AsNumber(n), AsString(n)} =>
              /\ lastOut' = HandleCommand(lastCmd'.name, AsNumber(n), nodes)
              /\ lastOut' = HandleCommand(lastCmd'.name, AsString(n), nodes)
       /\ UNCHANGED <<extVars, wsVars, eventCallbacks, subVars, nodeVars>>]_vars

(* C20: node lookups and SaveNode hand over independent copies. A caller   *)
(* writing any part of the record it holds, its attribute map and its      *)
(* subscription list included, changes neither what the registry shows for *)
(* any node nor what the storage holds.                                    *)
CallerWrites ==
  /\ nodes' = nodes
  /\ stNodes' = stNodes
  /\ Len(heap') = Len(heap)
  /\ <<held', heap'>> # <<held, heap>>

C20_LookupsReturnIndependentCopies ==
  [][CallerWrites => (RegistryView' = RegistryView /\ StorageView' = StorageView)]_vars

(* C21: the nodes route and the diagnostics route of a running server show *)
(* the node store: no record while the store is empty, and after a node is *)
(* saved exactly the saved records, diagnostics together with the current  *)
(* server info and an empty events list.                                   *)
RequestStep(names) == lastCmd = NoCall /\ lastCmd'.name \in names

C21_SavedNodeIsListed ==
  [][/\ RequestStep({"/api/nodes"}) =>
          lastOut' = [result |-> [kind |-> "nodes", list |-> StoredRecords(stNodes)],
                      err |-> NoErr]
     /\ RequestStep({"/api/diagnostics"}) =>
          lastOut' = [result |-> [kind |-> "diagnostics", info |-> serverInfo,
                                  nodes |-> StoredRecords(stNodes), events |-> <<>>],
                      err |-> NoErr]]_vars

(* C22: the server_info result, the frame sent on connect, the info field  *)
(* of diagnostics and the payload of /api/info are one value, the one New  *)
(* built, at every moment; its fabric_id is the configured fabric id.      *)
C22_OneServerInfo ==
  [][/\ serverInfo' = serverInfo
     /\ serverInfo.fabric_id = cfg.fabric_id
     /\ RequestStep({"server_info", "connect", "/api/info", "diagnostics", "/api/diagnostics"}) =>
          /\ lastOut'.err = NoErr
          /\ lastOut'.result.info = serverInfo
          /\ lastOut'.result.info.fabric_id = cfg.fabric_id]_vars

(* C22 witness: a server configured with fabric id 2 is serving and has    *)
(* answered /api/info with fabric_id 2.                                    *)
C22_InfoRouteAnswered ==
  /\ runPc = "serving"
  /\ cfg.fabric_id = 2
  /\ lastCmd.name = "/api/info"
  /\ lastOut.result.info.fabric_id = 2


(* ======================================================================= *)
(* The mDNS server (internal/mdns/server.go): Start, the two receive       *)
(* goroutines and Shutdown.                                                *)
(* ======================================================================= *)

MaxPackets == 2

notMdns == <<wsVars, eventCallbacks, subVars, nodeVars, cmdVars, runVars,
             restVars>>

(* Start, server.go:141-161, both listeners set up: the two recv           *)
(* goroutines are started on the open connections.                         *)
MdnsStart ==
  /\ mdnsPc = "new"
  /\ mdnsSdPc = "idle"
  /\ mdnsPc' = "started"
  /\ udpConn' = [c \in Conns |-> "open"]
  /\ recvPc' = [c \in Conns |-> "check"]
  /\ UNCHANGED <<notMdns, mdnsShutdown, handled, lateReads, lateHandled,
                 mdnsSdPc, mdnsSdErr>>

(* Start, server.go:145-147: setupIPv4 fails, ipv4conn is assigned nil.    *)
MdnsStartFailIPv4 ==
  /\ mdnsPc = "new"
  /\ mdnsSdPc = "idle"
  /\ mdnsPc' = "failed"
  /\ UNCHANGED <<notMdns, mdnsShutdown, udpConn, recvPc, handled, lateReads,
                 lateHandled, mdnsSdPc, mdnsSdErr>>

(* Start, server.go:150-153: setupIPv6 fails; the IPv4 connection is       *)
(* closed but the field keeps pointing to it.                              *)
MdnsStartFailIPv6 ==
  /\ mdnsPc = "new"
  /\ mdnsSdPc = "idle"
  /\ mdnsPc' = "failed"
  /\ udpConn' = [udpConn EXCEPT !["ipv4"] = "closed"]
  /\ UNCHANGED <<notMdns, mdnsShutdown, recvPc, handled, lateReads,
                 lateHandled, mdnsSdPc, mdnsSdErr>>

(* recv, server.go:225: the loop condition reads the flag.                 *)
RecvCheck(c) ==
  /\ recvPc[c] = "check"
  /\ recvPc' = [recvPc EXCEPT ![c] = IF mdnsShutdown THEN "done" ELSE "read"]
  /\ UNCHANGED <<notMdns, mdnsPc, mdnsShutdown, udpConn, handled, lateReads,
                 lateHandled, mdnsSdPc, mdnsSdErr>>

(* recv, server.go:226-227: the deadline is set and ReadFromUDP called.    *)
RecvBegin(c) ==
  /\ recvPc[c] = "read"
  /\ recvPc' = [recvPc EXCEPT ![c] = "reading"]
  /\ lateReads' = [lateReads EXCEPT ![c] = @ + (IF mdnsShutdown THEN 1 ELSE 0)]
  /\ UNCHANGED <<notMdns, mdnsPc, mdnsShutdown, udpConn, handled, lateHandled,
                 mdnsSdPc, mdnsSdErr>>

(* ReadFromUDP returns a packet: only an open socket delivers one.         *)
RecvPacket(c) ==
  /\ recvPc[c] = "reading"
  /\ udpConn[c] = "open"
  /\ handled[c] < MaxPackets
  /\ recvPc' = [recvPc EXCEPT ![c] = "handle"]
  /\ UNCHANGED <<notMdns, mdnsPc, mdnsShutdown, udpConn, handled, lateReads,
                 lateHandled, mdnsSdPc, mdnsSdErr>>

(* recv, server.go:228-231: the one-second deadline passes, continue.      *)
RecvTimeout(c) ==
  /\ recvPc[c] = "reading"
  /\ udpConn[c] = "open"
  /\ recvPc' = [recvPc EXCEPT ![c] = "check"]
  /\ UNCHANGED <<notMdns, mdnsPc, mdnsShutdown, udpConn, handled, lateReads,
                 lateHandled, mdnsSdPc, mdnsSdErr>>

(* recv, server.go:232-235: the read of a closed socket fails, continue.   *)
RecvError(c) ==
  /\ recvPc[c] = "reading"
  /\ udpConn[c] = "closed"
  /\ recvPc' = [recvPc EXCEPT ![c] = "check"]
  /\ UNCHANGED <<notMdns, mdnsPc, mdnsShutdown, udpConn, handled, lateReads,
                 lateHandled, mdnsSdPc, mdnsSdErr>>

(* recv, server.go:237-238: the packet is handed to parsePacket.           *)
RecvHandle(c) ==
  /\ recvPc[c] = "handle"
  /\ recvPc' = [recvPc EXCEPT ![c] = "check"]
  /\ handled' = [handled EXCEPT ![c] = @ + 1]
  /\ lateHandled' =
       [lateHandled EXCEPT ![c] = @ + (IF mdnsShutdown THEN 1 ELSE 0)]
  /\ UNCHANGED <<notMdns, mdnsPc, mdnsShutdown, udpConn, lateReads, mdnsSdPc,
                 mdnsSdErr>>

recv(c) ==
  \/ RecvCheck(c)
  \/ RecvBegin(c)
  \/ RecvPacket(c)
  \/ RecvTimeout(c)
  \/ RecvError(c)
  \/ RecvHandle(c)

(* Variant of MdnsShutdownStore: the sockets are closed, the flag is not   *)
(* set.                                                                    *)
MdnsShutdownNoFlag ==
  /\ mdnsPc # "none"
  /\ mdnsSdPc = "idle"
  /\ mdnsSdPc' = "ipv4"
  /\ UNCHANGED <<notMdns, mdnsPc, mdnsShutdown, udpConn, recvPc, handled,
                 lateReads, lateHandled, mdnsSdErr>>

(* Shutdown, server.go:165: the flag is stored first.                      *)
MdnsShutdownStore ==
  /\ mdnsPc # "none"
  /\ mdnsSdPc = "idle"
  /\ mdnsShutdown' = TRUE
  /\ mdnsSdPc' = "ipv4"
  /\ UNCHANGED <<notMdns, mdnsPc, udpConn, recvPc, handled, lateReads,
                 lateHandled, mdnsSdErr>>

SdAfter(c) == IF c = "ipv4" THEN "ipv6" ELSE "done"

(* Shutdown, server.go:169-179: a non-nil connection is closed; closing a  *)
(* connection that is already closed returns an error, which is collected. *)
MdnsShutdownClose(c) ==
  /\ mdnsSdPc = c
  /\ mdnsSdPc' = SdAfter(c)
  /\ udpConn' = [udpConn EXCEPT ![c] = IF @ = "nil" THEN "nil" ELSE "closed"]
  /\ mdnsSdErr' = mdnsSdErr + (IF udpConn[c] = "closed" THEN 1 ELSE 0)
  /\ UNCHANGED <<notMdns, mdnsPc, mdnsShutdown, recvPc, handled, lateReads,
                 lateHandled>>

(* Shutdown, server.go:183-187: what the call returns.                     *)
MdnsShutdownResult == IF mdnsSdErr > 0 THEN "error" ELSE NoErr

MdnsShutdown ==
  \/ MdnsShutdownStore
  \/ \E c \in Conns : MdnsShutdownClose(c)

MdnsConfigs == {Config(1, 0 - 1, TRUE)}

InitMdnsServer ==
  /\ InitWs
  /\ eventCallbacks = <<>>
  /\ InitSrv
  /\ cfg \in MdnsConfigs
  /\ serverInfo = ServerInfoOf(cfg)
  /\ runPc = "new"
  /\ InitMdns
  /\ InitRest

NextMdns ==
  \/ MdnsStart
  \/ MdnsStartFailIPv4
  \/ MdnsStartFailIPv6
  \/ \E c \in Conns : RecvCheck(c)
  \/ \E c \in Conns : RecvBegin(c)
  \/ \E c \in Conns : RecvPacket(c)
  \/ \E c \in Conns : RecvTimeout(c)
  \/ \E c \in Conns : RecvError(c)
  \/ \E c \in Conns : RecvHandle(c)
  \/ MdnsShutdownStore
  \/ \E c \in Conns : MdnsShutdownClose(c)

SpecMdns == InitMdnsServer /\ [][NextMdns]_vars

(* The goroutines and the caller of Shutdown are scheduled: each receive   *)
(* loop keeps taking steps (a blocked read ends with the deadline or with  *)
(* the close of its socket), and Shutdown, once called, runs to its end.   *)
FairMdns ==
  /\ \A c \in Conns : WF_vars(recv(c))
  /\ WF_vars(\E c \in Conns : MdnsShutdownClose(c))

SpecMdnsFair == SpecMdns /\ FairMdns

(* C29: mdns.Server.Shutdown sets the flag and closes the sockets; from    *)
(* then on a receive loop begins at most the one read of the iteration it  *)
(* is in and handles at most the packet of that iteration, a loop that     *)
(* reads the flag at its loop condition ends, an ended loop handles        *)
(* nothing more, every started loop does end, and Shutdown of a server     *)
(* that was never started returns no error.                                *)
C29_LoopsStop ==
  \A c \in Conns :
    /\ lateReads'[c] <= 1
    /\ lateHandled'[c] <= 1
    /\ (mdnsShutdown /\ recvPc[c] = "check") => recvPc'[c] \in {"check", "done"}
    /\ recvPc[c] = "done" => (recvPc'[c] = "done" /\ handled'[c] = handled[c])
    /\ mdnsSdPc' = "done" => (mdnsShutdown' /\ udpConn'[c] # "open")
    /\ (mdnsSdPc' = "done" /\ mdnsPc' = "new") => MdnsShutdownResult' = NoErr

notRun == <<wsVars, eventCallbacks, subVars, nodeVars, cmdVars, cfg,
            serverInfo, mdnsVars, restVars>>

(* Run, server.go:169-178: the mDNS server, when there is one, is started; *)
(* a failure is logged.                                                    *)
RunMdnsStart ==
  /\ runPc = "startMdns"
  /\ MdnsStart

RunMdnsStartFailIPv4 ==
  /\ runPc = "startMdns"
  /\ MdnsStartFailIPv4

RunMdnsStartFailIPv6 ==
  /\ runPc = "startMdns"
  /\ MdnsStartFailIPv6

(* Run, server.go:189-209: the router is set up and the HTTP server        *)
(* listens.                                                                *)
RunListen ==
  /\ runPc = "startMdns"
  /\ mdnsPc # "new"
  /\ runPc' = "serving"
  /\ UNCHANGED notRun

(* net/http serves /ws (server.go:381): HandleWebSocket is entered only    *)
(* while the listener accepts connections.                                 *)
RunAccept(s) ==
  /\ runPc = "serving"
  /\ HWCreate(s)

(* Run, server.go:212-216: the context is done and shutdown is called.     *)
RunCancel ==
  /\ runPc = "serving"
  /\ runPc' = "drainHttp"
  /\ UNCHANGED notRun

(* Run, server.go:217-219: ListenAndServe failed, Run returns the error.   *)
RunServeError ==
  /\ runPc = "serving"
  /\ runPc' = "serverError"
  /\ UNCHANGED notRun

(* shutdown, server.go:457-463: http.Server.Shutdown closes the listener   *)
(* and returns when the connections it tracks are idle or after ten        *)
(* seconds; its error is logged.  Upgraded connections are not tracked.    *)
ShutdownHTTP ==
  /\ runPc = "drainHttp"
  /\ runPc' = "closeWs"
  /\ UNCHANGED notRun

(* shutdown, server.go:466: wsHandler.Shutdown().                          *)
ShutdownWs ==
  /\ runPc = "closeWs"
  /\ Shutdown

(* shutdown, server.go:468-478: Handler.Shutdown has returned; the         *)
(* Bluetooth manager is stopped and the mDNS server, if any, shut down.    *)
ShutdownWsReturned ==
  /\ runPc = "closeWs"
  /\ sdPc = "done"
  /\ runPc' = IF mdnsPc = "none" THEN "emit" ELSE "stopMdns"
  /\ UNCHANGED notRun

ShutdownMdns ==
  /\ runPc = "stopMdns"
  /\ MdnsShutdown

(* shutdown, server.go:475-477: the error of mdns Shutdown is logged.      *)
ShutdownMdnsReturned ==
  /\ runPc = "stopMdns"
  /\ mdnsSdPc = "done"
  /\ runPc' = "emit"
  /\ UNCHANGED notRun

(* shutdown, server.go:481: the server_shutdown event is published.        *)
ShutdownEmit ==
  /\ runPc = "emit"
  /\ emitted = 0
  /\ EmitEvent

(* shutdown, server.go:484: return nil, which Run returns.                 *)
RunReturn ==
  /\ runPc = "emit"
  /\ emitted = 1
  /\ runPc' = "returned"
  /\ UNCHANGED notRun

ShutdownSessions == 1

ShutdownConfigs == {Config(1, 0 - 1, m) : m \in BOOLEAN}

InitShutdown ==
  /\ InitWs
  /\ eventCallbacks = <<>>
  /\ InitSrv
  /\ cfg \in ShutdownConfigs
  /\ serverInfo = ServerInfoOf(cfg)
  /\ runPc = "new"
  /\ InitMdns
  /\ InitRest

(* Run from its start to its return, with ShutdownSessions clients that    *)
(* connect while the server listens; a session ends on a transport error,  *)
(* on the end of its request upstream, or not at all before the shutdown.  *)
(* No frame is read and the receive loops of the mDNS server are not       *)
(* scheduled.                                                              *)
NextShutdown ==
  \/ RunStart
  \/ RunMdnsStart
  \/ RunMdnsStartFailIPv4
  \/ RunMdnsStartFailIPv6
  \/ RunListen
  \/ \E s \in 1..ShutdownSessions : RunAccept(s)
  \/ \E s \in 1..ShutdownSessions : HWRegister(s)
  \/ \E s \in 1..ShutdownSessions : HWSendInfo(s)
  \/ \E s \in 1..ShutdownSessions : HWSendInfoFail(s)
  \/ \E s \in 1..ShutdownSessions : UpstreamCancel(s)
  \/ \E s \in 1..ShutdownSessions : ReadLoop(s)
  \/ \E s \in 1..ShutdownSessions : WriteLoop(s)
  \/ \E s \in 1..ShutdownSessions : CloserRun(s)
  \/ \E t \in CloseCallers : Close(t)
  \/ RunCancel
  \/ RunServeError
  \/ ShutdownHTTP
  \/ ShutdownWs
  \/ ShutdownWsReturned
  \/ ShutdownMdns
  \/ ShutdownMdnsReturned
  \/ ShutdownEmit
  \/ RunReturn

SpecShutdown == InitShutdown /\ [][NextShutdown]_vars

(* C23: when the context of Run is cancelled, shutdown drains the HTTP     *)
(* server first, closes the WebSocket sessions only afterwards, stops the  *)
(* mDNS server after that, and Run returns; the step that closes the       *)
(* sessions never comes to a halt, however many sessions are open.         *)
C23_ShutdownStagesComplete ==
  /\ sdPc # "idle" => runPc \in {"closeWs", "stopMdns", "emit", "returned"}
  /\ mdnsSdPc # "idle" => (sdPc = "done" /\ runPc \in {"stopMdns", "emit", "returned"})
  /\ runPc = "returned" => sdPc = "done"
  /\ ~(runPc = "closeWs" /\ sdPc = "closing" /\ closePc[SD] = "lock" /\ mu.w = "sd")


(* ======================================================================= *)
(* The DNS wire codec (internal/mdns/server.go:374-518).  A buffer is a    *)
(* sequence of bytes 0..255; Go's buf[i] is element i + 1.  A name is the  *)
(* sequence of its bytes, 46 being the dot.                                *)
(* ======================================================================= *)

MaxTail == 5
MaxAnswers == 1

notCodec == <<wsVars, eventCallbacks, subVars, nodeVars, cmdVars, runVars,
              mdnsVars, zoneVars, fileVars, moreVars>>

Dot == 46

RECURSIVE Join(_)
(* strings.Join(name, "."), server.go:498.                                 *)
Join(labels) ==
  IF labels = <<>> THEN <<>>
  ELSE IF Len(labels) = 1 THEN labels[1]
  ELSE labels[1] \o <<Dot>> \o Join(Tail(labels))

RECURSIVE nameLoopTargetOffset(_, _, _, _, _, _)
(* Variant of nameLoop: the offset returned is the one the loop ended at,  *)
(* also when a pointer was followed.                                       *)
nameLoopTargetOffset(buf, offset, name, original, jumped, seen) ==
  IF offset >= Len(buf)
    THEN [kind |-> "ok", name |-> Join(name), next |-> offset]
  ELSE IF buf[offset + 1] = 0
    THEN [kind |-> "ok", name |-> Join(name), next |-> offset + 1]
  ELSE IF buf[offset + 1] >= 192
    THEN IF offset + 1 >= Len(buf) THEN [kind |-> "panic"]
         ELSE IF offset \in seen THEN [kind |-> "hang"]
         ELSE nameLoopTargetOffset(buf,
                (buf[offset + 1] % 64) * 256 + buf[offset + 2],
                name, original, TRUE, seen \union {offset})
  ELSE IF offset + 1 + buf[offset + 1] >= Len(buf)
    THEN [kind |-> "error"]
  ELSE nameLoopTargetOffset(buf, offset + 1 + buf[offset + 1],
         Append(name, SubSeq(buf, offset + 2, offset + 1 + buf[offset + 1])),
         original, jumped, seen)

RECURSIVE nameLoop(_, _, _, _, _, _)
(* The loop of parseName, server.go:470-492.  seen holds the offsets at    *)
(* which a compression pointer was followed: from a pointer on, control    *)
(* depends on the offset alone, so reaching one of them again means the    *)
(* loop never ends.  Reading buf[offset+1] when offset is the last index   *)
(* is an index out of range, which panics.                                 *)
nameLoop(buf, offset, name, original, jumped, seen) ==
  IF offset >= Len(buf)
    THEN [kind |-> "ok", name |-> Join(name),
          next |-> IF jumped THEN original ELSE offset]
  ELSE IF buf[offset + 1] = 0
    THEN [kind |-> "ok", name |-> Join(name),
          next |-> IF jumped THEN original ELSE offset + 1]
  ELSE IF buf[offset + 1] >= 192
    THEN IF offset + 1 >= Len(buf) THEN [kind |-> "panic"]
         ELSE IF offset \in seen THEN [kind |-> "hang"]
         ELSE nameLoop(buf, (buf[offset + 1] % 64) * 256 + buf[offset + 2],
                       name, IF jumped THEN original ELSE offset + 2, TRUE,
                       seen \union {offset})
  ELSE IF offset + 1 + buf[offset + 1] >= Len(buf)
    THEN [kind |-> "error"]
  ELSE nameLoop(buf, offset + 1 + buf[offset + 1],
                Append(name, SubSeq(buf, offset + 2, offset + 1 + buf[offset + 1])),
                original, jumped, seen)

(* parseName, server.go:465-499.                                           *)
parseName(buf, offset) == nameLoop(buf, offset, <<>>, offset, FALSE, {})

U16(buf, i) == buf[i + 1] * 256 + buf[i + 2]

(* parseDNSMessage, server.go:379-388: the header fields.                  *)
parseHeader(buf) ==
  [ID |-> U16(buf, 0),
   Response |-> buf[3] >= 128,
   Opcode |-> (buf[3] \div 8) % 16,
   Authoritative |-> (buf[3] \div 4) % 2 = 1,
   Truncated |-> (buf[3] \div 2) % 2 = 1,
   RecursionDesired |-> buf[3] % 2 = 1,
   RecursionAvailable |-> buf[4] >= 128,
   Rcode |-> buf[4] % 16,
   Questions |-> <<>>,
   Answers |-> <<>>]

RECURSIVE parseQuestions(_, _, _, _)
(* parseDNSMessage, server.go:393-411: the loop over the questions.        *)
parseQuestions(buf, offset, left, msg) ==
  IF left = 0 THEN [kind |-> "message", msg |-> msg]
  ELSE LET r == parseName(buf, offset) IN
    IF r.kind # "ok" THEN [kind |-> r.kind]
    ELSE IF r.next + 4 > Len(buf) THEN [kind |-> "error"]
    ELSE parseQuestions(buf, r.next + 4, left - 1,
           [msg EXCEPT !.Questions =
              Append(@, [Name |-> r.name, Type |-> U16(buf, r.next),
                         Class |-> U16(buf, r.next + 2)])])

(* parseDNSMessage, server.go:374-414.                                     *)
parseDNSMessage(buf) ==
  IF Len(buf) < 12 THEN [kind |-> "error"]
  ELSE parseQuestions(buf, 12, U16(buf, 4), parseHeader(buf))

RECURSIVE Split(_, _)
(* strings.Split(name, ".") with the current part cur.                     *)
Split(name, cur) ==
  IF \A k \in 1..Len(name) : name[k] # Dot THEN <<cur \o name>>
  ELSE LET dot == CHOOSE k \in 1..Len(name) :
                    name[k] = Dot /\ \A j \in 1..(k - 1) : name[j] # Dot
       IN <<cur \o SubSeq(name, 1, dot - 1)>>
            \o Split(SubSeq(name, dot + 1, Len(name)), <<>>)

RECURSIVE encodeParts(_)
encodeParts(parts) ==
  IF parts = <<>> THEN <<0>>
  ELSE IF Head(parts) = <<>> THEN encodeParts(Tail(parts))
  ELSE <<Len(Head(parts)) % 256>> \o Head(parts) \o encodeParts(Tail(parts))

(* encodeName, server.go:501-518.                                          *)
encodeName(name) ==
  IF name = <<Dot>> THEN <<0>> ELSE encodeParts(Split(name, <<>>))

B(b) == IF b THEN 1 ELSE 0

Hi(n) == (n \div 256) % 256
Lo(n) == n % 256

(* encodeDNSMessage, server.go:417-442: the twelve header bytes.           *)
encodeHeader(msg) ==
  <<Hi(msg.ID), Lo(msg.ID),
    128 * B(msg.Response) + (msg.Opcode % 16) * 8 + 4 * B(msg.Authoritative)
      + 2 * B(msg.Truncated) + B(msg.RecursionDesired),
    128 * B(msg.RecursionAvailable) + (msg.Rcode % 16),
    Hi(Len(msg.Questions)), Lo(Len(msg.Questions)),
    Hi(Len(msg.Answers)), Lo(Len(msg.Answers)),
    0, 0, 0, 0>>

RECURSIVE encodeQuestions(_)
(* encodeDNSMessage, server.go:444-449.                                    *)
encodeQuestions(qs) ==
  IF qs = <<>> THEN <<>>
  ELSE encodeName(Head(qs).Name)
         \o <<Hi(Head(qs).Type), Lo(Head(qs).Type),
              Hi(Head(qs).Class), Lo(Head(qs).Class)>>
         \o encodeQuestions(Tail(qs))

RECURSIVE encodeAnswers(_)
(* encodeDNSMessage, server.go:451-459.                                    *)
encodeAnswers(rs) ==
  IF rs = <<>> THEN <<>>
  ELSE encodeName(Head(rs).Name)
         \o <<Hi(Head(rs).Type), Lo(Head(rs).Type),
              Hi(Head(rs).Class), Lo(Head(rs).Class),
              (Head(rs).TTL \div 16777216) % 256, (Head(rs).TTL \div 65536) % 256,
              Hi(Head(rs).TTL), Lo(Head(rs).TTL),
              Hi(Len(Head(rs).Data)), Lo(Len(Head(rs).Data))>>
         \o Head(rs).Data
         \o encodeAnswers(Tail(rs))

(* encodeDNSMessage, server.go:416-463.                                    *)
encodeDNSMessage(msg) ==
  encodeHeader(msg) \o encodeQuestions(msg.Questions) \o encodeAnswers(msg.Answers)

(* ---- the inputs ---- *)
(* The bytes after the header of a received packet: the end of a name, a   *)
(* label of length one, the offset 12 (the first byte after the header),   *)
(* a letter, and the first byte of a compression pointer.                  *)
TailBytes == {0, 1, 12, 97, 192}

RECURSIVE Tails(_)
Tails(n) ==
  IF n = 0 THEN {<<>>}
  ELSE Tails(n - 1) \union
         {Append(t, b) : t \in {u \in Tails(n - 1) : Len(u) = n - 1}, b \in TailBytes}

ReceivedHeaders ==
  {<<0, 7, f, 0, 0, qd, 0, 0, 0, 0, 0, 0>> : f \in {0, 128}, qd \in {0, 1, 2}}

ReceivedBuffers ==
  {h \o t : h \in ReceivedHeaders, t \in Tails(MaxTail)}
    \union {SubSeq(h, 1, n) : h \in ReceivedHeaders, n \in {0, 11}}

NameA == <<97>>
NameALocal == <<97, Dot, 108, 111, 99, 97, 108>>

BuiltQuestions ==
  {[Name |-> n, Type |-> t, Class |-> 1] : n \in {NameA, NameALocal}, t \in {1, 28}}

BuiltAnswers ==
  {[Name |-> NameALocal, Type |-> 1, Class |-> 1, TTL |-> 120,
    Data |-> <<10, 0, 0, 1>>]}

RECURSIVE AnswerLists(_)
AnswerLists(n) ==
  IF n = 0 THEN {<<>>}
  ELSE AnswerLists(n - 1) \union
         {Append(l, a) : l \in {m \in AnswerLists(n - 1) : Len(m) = n - 1},
                         a \in BuiltAnswers}

BuiltMessages ==
  {[ID |-> id, Response |-> fl[1], Opcode |-> op, Authoritative |-> fl[2],
    Truncated |-> fl[3], RecursionDesired |-> fl[4],
    RecursionAvailable |-> fl[5], Rcode |-> rc, Questions |-> <<q>>,
    Answers |-> as] :
     id \in {0, 258, 65535}, fl \in [1..5 -> BOOLEAN], op \in {0, 15},
     rc \in {0, 3}, q \in BuiltQuestions, as \in AnswerLists(MaxAnswers)}

InitCodecInputs ==
  /\ InitWs
  /\ eventCallbacks = <<>>
  /\ InitSrv
  /\ cfg = Config(1, 0 - 1, TRUE)
  /\ serverInfo = ServerInfoOf(cfg)
  /\ runPc = "new"
  /\ InitMdns
  /\ InitZone
  /\ InitFile
  /\ InitMore
  /\ dnsParsed = NotParsed
  /\ dnsPc \in {"received", "built"}
  /\ dnsMsg \in (IF dnsPc = "built" THEN BuiltMessages ELSE {NoDNS})
  /\ dnsBuf \in (IF dnsPc = "built" THEN {<<>>} ELSE ReceivedBuffers)

(* sendResponse, server.go:307-311: the message is encoded.                *)
DnsEncode ==
  /\ dnsPc = "built"
  /\ dnsBuf' = encodeDNSMessage(dnsMsg)
  /\ dnsPc' = "encoded"
  /\ UNCHANGED <<notCodec, dnsMsg, dnsParsed>>

(* parsePacket, server.go:241-245: the bytes are parsed.                   *)
DnsParse ==
  /\ dnsPc \in {"received", "encoded"}
  /\ dnsParsed' = parseDNSMessage(dnsBuf)
  /\ dnsPc' = "parsed"
  /\ UNCHANGED <<notCodec, dnsMsg, dnsBuf>>

NextCodec == DnsEncode \/ DnsParse

SpecCodec == InitCodecInputs /\ [][NextCodec]_vars

(* C24: for every buffer parseDNSMessage returns a message or a parse      *)
(* error; it never reads at or beyond the length of the buffer (a panic)   *)
(* and never fails to return.                                              *)
C24_ParseFailsClosed ==
  dnsPc = "parsed" => dnsParsed.kind \in {"message", "error"}

(* C25: a constructed message that is encoded and then parsed comes back   *)
(* with the same id, the same header fields, the same question and the     *)
(* same answer records.                                                    *)
C25_EncodeParseRoundTrip ==
  (dnsPc = "parsed" /\ dnsMsg # NoDNS) =>
     dnsParsed = [kind |-> "message", msg |-> dnsMsg]


(* ======================================================================= *)
(* The mDNS zone (internal/mdns/zone.go).  A hostname is the sequence of   *)
(* its characters.  z.ips is a slice: a header of a pointer and a length   *)
(* that refers to a backing array; the zone has no lock.                   *)
(* ======================================================================= *)

MaxUpdates == 2

dnsTypeA == 1
dnsTypeAAAA == 28
dnsTypePTR == 12
dnsTypeTXT == 16
dnsTypeSRV == 33

notZone == <<wsVars, eventCallbacks, subVars, nodeVars, cmdVars, runVars,
             mdnsVars, codecVars, fileVars, moreVars>>

DotLocal == <<".", "l", "o", "c", "a", "l">>
MatterServer == <<"m", "a", "t", "t", "e", "r", "-", "s", "e", "r", "v", "e", "r">>

(* strings.HasSuffix.                                                      *)
HasSuffix(str, suffix) ==
  /\ Len(str) >= Len(suffix)
  /\ SubSeq(str, Len(str) - Len(suffix) + 1, Len(str)) = suffix

(* Variant of hostnameOf: the suffix is appended whatever the value ends   *)
(* with.                                                                   *)
hostnameAlwaysAppended(hostname) ==
  (IF hostname = <<>> THEN MatterServer ELSE hostname) \o DotLocal

(* NewMatterZone, zone.go:19-26: the hostname the zone gets.               *)
hostnameOf(hostname) ==
  LET given == IF hostname = <<>> THEN MatterServer ELSE hostname
  IN IF HasSuffix(given, DotLocal) THEN given ELSE given \o DotLocal

(* unicode.ToLower on the letters the inputs use.                          *)
LowerChar(c) ==
  CASE c = "X" -> "x"
    [] c = "L" -> "l"
    [] c = "O" -> "o"
    [] c = "C" -> "c"
    [] c = "A" -> "a"
    [] OTHER -> c

(* Variant of ToLower: the name is compared as it is.                      *)
KeepCase(str) == str

(* strings.ToLower, zone.go:42-43.                                         *)
ToLower(str) == [i \in 1..Len(str) |-> LowerChar(str[i])]

(* A net.IP: whether To4 is non-nil, IsLoopback, IsLinkLocalUnicast.       *)
IP(text, v4, loopback, linkLocal) ==
  [text |-> text, v4 |-> v4, loopback |-> loopback, linkLocal |-> linkLocal]

Lan4 == IP("192.168.1.100", TRUE, FALSE, FALSE)
Lan4b == IP("10.0.0.50", TRUE, FALSE, FALSE)
Loop4 == IP("127.0.0.1", TRUE, TRUE, FALSE)
Link4 == IP("169.254.1.1", TRUE, FALSE, TRUE)
Global6 == IP("2001:db8::1", FALSE, FALSE, FALSE)
Loop6 == IP("::1", FALSE, TRUE, FALSE)
Link6 == IP("fe80::1", FALSE, FALSE, TRUE)

(* A net.Interface with the result of its Addrs call.                      *)
Iface(up, loopback, addrsFail, addrs) ==
  [up |-> up, loopback |-> loopback, addrsFail |-> addrsFail, addrs |-> addrs]

(* What net.Interfaces can return: an error, or a list of interfaces.      *)
EnumFailed == [failed |-> TRUE, ifaces |-> <<>>]

Enumerated(ifaces) == [failed |-> FALSE, ifaces |-> ifaces]

IfLo == Iface(TRUE, TRUE, FALSE, <<Loop4, Loop6>>)
IfEth == Iface(TRUE, FALSE, FALSE, <<Lan4, Link6, Global6>>)
IfWlan == Iface(TRUE, FALSE, FALSE, <<Link4, Lan4b>>)
IfDown == Iface(FALSE, FALSE, FALSE, <<Lan4b>>)
IfBroken == Iface(TRUE, FALSE, TRUE, <<Lan4b>>)
IfOdd == Iface(TRUE, FALSE, FALSE, <<Loop4, Loop6, Global6>>)

Enumerations ==
  {EnumFailed, Enumerated(<<>>), Enumerated(<<IfLo>>), Enumerated(<<IfLo, IfEth>>),
   Enumerated(<<IfLo, IfEth, IfWlan>>), Enumerated(<<IfDown, IfBroken, IfWlan>>),
   Enumerated(<<IfOdd>>)}

(* Variant of keptAddrs: link-local addresses are kept.                    *)
keptAddrsNotLoopback(iface) ==
  SelectSeq(iface.addrs, LAMBDA ip : ~ip.loopback)

(* updateIPs, zone.go:124-139: the addresses of one interface that are     *)
(* kept.                                                                   *)
keptAddrs(iface) ==
  SelectSeq(iface.addrs, LAMBDA ip : ~ip.loopback /\ ~ip.linkLocal)

RECURSIVE collectIPs(_)
(* updateIPs, zone.go:113-140: the loop over the interfaces.               *)
collectIPs(ifaces) ==
  IF ifaces = <<>> THEN <<>>
  ELSE (IF ~Head(ifaces).up \/ Head(ifaces).loopback \/ Head(ifaces).addrsFail
          THEN <<>> ELSE keptAddrs(Head(ifaces)))
       \o collectIPs(Tail(ifaces))

(* The header of a slice whose elements are list, in a heap that holds     *)
(* arrays so far: a nil slice when nothing was appended.                   *)
SliceOf(list, arrays) ==
  IF list = <<>> THEN NilSlice ELSE [ptr |-> Len(arrays) + 1, len |-> Len(list)]

ArraysWith(list, arrays) ==
  IF list = <<>> THEN arrays ELSE Append(arrays, list)

(* The elements a slice header refers to.                                  *)
ArrayAt(ptr) == IF ptr = 0 THEN <<>> ELSE zoneArrays[ptr]

(* NewMatterZone, zone.go:18-37: the hostname is set and updateIPs runs    *)
(* before the zone is handed to anyone.                                    *)
ZoneNew(e) ==
  /\ zonePc = "none"
  /\ zonePc' = "built"
  /\ zoneHostname' = hostnameOf(zoneCfgHost)
  /\ zoneIps' = IF e.failed THEN zoneIps
                ELSE SliceOf(collectIPs(e.ifaces), zoneArrays)
  /\ zoneArrays' = IF e.failed THEN zoneArrays
                   ELSE ArraysWith(collectIPs(e.ifaces), zoneArrays)
  /\ UNCHANGED <<notZone, zoneCfgHost, updPc, updNew, updStored, recPc, recQ,
                 recHdr, recOut>>

(* updateIPs, zone.go:105-140: the interfaces are enumerated and the new   *)
(* slice is built.                                                         *)
UpdCall(e) ==
  /\ zonePc = "built"
  /\ updPc = "idle"
  /\ ~e.failed
  /\ Len(zoneArrays) <= MaxUpdates
  /\ updPc' = "store"
  /\ updNew' = SliceOf(collectIPs(e.ifaces), zoneArrays)
  /\ zoneArrays' = ArraysWith(collectIPs(e.ifaces), zoneArrays)
  /\ updStored' = {}
  /\ UNCHANGED <<notZone, zonePc, zoneCfgHost, zoneHostname, zoneIps, recPc,
                 recQ, recHdr, recOut>>

(* updateIPs, zone.go:107-111: net.Interfaces fails, the method returns.   *)
UpdCallFails ==
  /\ zonePc = "built"
  /\ updPc = "idle"
  /\ updPc' = "failed"
  /\ UNCHANGED <<notZone, zonePc, zoneCfgHost, zoneHostname, zoneIps,
                 zoneArrays, updNew, updStored, recPc, recQ, recHdr, recOut>>

(* updateIPs, zone.go:142: z.ips = ips writes the words of the header one  *)
(* by one.                                                                 *)
UpdStore(w) ==
  /\ updPc = "store"
  /\ w \notin updStored
  /\ zoneIps' = [zoneIps EXCEPT ![w] = updNew[w]]
  /\ updStored' = updStored \union {w}
  /\ UNCHANGED <<notZone, zonePc, zoneCfgHost, zoneHostname, zoneArrays, updPc,
                 updNew, recPc, recQ, recHdr, recOut>>

UpdReturn ==
  /\ updPc = "store"
  /\ updStored = {"ptr", "len"}
  /\ updPc' = "idle"
  /\ UNCHANGED <<notZone, zonePc, zoneCfgHost, zoneHostname, zoneIps,
                 zoneArrays, updNew, updStored, recPc, recQ, recHdr, recOut>>

UpdReturnFailed ==
  /\ updPc = "failed"
  /\ updPc' = "idle"
  /\ UNCHANGED <<notZone, zonePc, zoneCfgHost, zoneHostname, zoneIps,
                 zoneArrays, updNew, updStored, recPc, recQ, recHdr, recOut>>

(* Records, zone.go:54-58: the name is the zone's and the type is A or     *)
(* AAAA, so z.ips will be ranged over.                                     *)
Answered(q) ==
  /\ ToLower(q.Name) = ToLower(zoneHostname)
  /\ q.Type \in {dnsTypeA, dnsTypeAAAA}

(* Records, zone.go:40-58 and 96: another name or another type, no record. *)
RecCallEmpty(q) ==
  /\ zonePc = "built"
  /\ recPc = "idle"
  /\ ~Answered(q)
  /\ recPc' = "done"
  /\ recQ' = q
  /\ recHdr' = NothingRead
  /\ recOut' = [kind |-> "records", list |-> <<>>]
  /\ UNCHANGED <<notZone, zonePc, zoneCfgHost, zoneHostname, zoneIps,
                 zoneArrays, updPc, updNew, updStored>>

RecCall(q) ==
  /\ zonePc = "built"
  /\ recPc = "idle"
  /\ Answered(q)
  /\ recPc' = "load"
  /\ recQ' = q
  /\ recHdr' = NothingRead
  /\ recOut' = NoAnswer
  /\ UNCHANGED <<notZone, zonePc, zoneCfgHost, zoneHostname, zoneIps,
                 zoneArrays, updPc, updNew, updStored>>

(* Records, zone.go:61 and 76: range z.ips reads the words of the header.  *)
RecLoad(w) ==
  /\ recPc = "load"
  /\ w \notin recHdr.got
  /\ recHdr' = [recHdr EXCEPT ![w] = zoneIps[w], !.got = @ \union {w}]
  /\ UNCHANGED <<notZone, zonePc, zoneCfgHost, zoneHostname, zoneIps,
                 zoneArrays, updPc, updNew, updStored, recPc, recQ, recOut>>

RR(type, ip) ==
  [Name |-> zoneHostname, Type |-> type, Class |-> 1, TTL |-> 120, ip |-> ip]

RECURSIVE recordsFor(_, _)
(* Records, zone.go:58-89: the loop over the addresses.                    *)
recordsFor(type, ips) ==
  IF ips = <<>> THEN <<>>
  ELSE (IF type = dnsTypeA /\ Head(ips).v4 THEN <<RR(dnsTypeA, Head(ips))>>
        ELSE IF type = dnsTypeAAAA /\ ~Head(ips).v4 /\ ~Head(ips).loopback
          THEN <<RR(dnsTypeAAAA, Head(ips))>>
        ELSE <<>>)
       \o recordsFor(type, Tail(ips))

(* The loop runs over len elements from ptr on: when the header read is    *)
(* longer than the array it points to, it reads memory beyond the array.   *)
RecAnswer ==
  /\ recPc = "load"
  /\ recHdr.got = {"ptr", "len"}
  /\ recPc' = "done"
  /\ recOut' = IF recHdr.len > Len(ArrayAt(recHdr.ptr))
                 THEN [kind |-> "beyond"]
                 ELSE [kind |-> "records",
                       list |-> recordsFor(recQ.Type,
                                  SubSeq(ArrayAt(recHdr.ptr), 1, recHdr.len))]
  /\ UNCHANGED <<notZone, zonePc, zoneCfgHost, zoneHostname, zoneIps,
                 zoneArrays, updPc, updNew, updStored, recQ, recHdr>>

RecReturn ==
  /\ recPc = "done"
  /\ recPc' = "idle"
  /\ recQ' = NoQuestion
  /\ recHdr' = NothingRead
  /\ recOut' = NoAnswer
  /\ UNCHANGED <<notZone, zonePc, zoneCfgHost, zoneHostname, zoneIps,
                 zoneArrays, updPc, updNew, updStored>>

(* ---- the inputs ---- *)
HostX == <<"x">>
HostInputs ==
  {<<>>, HostX, HostX \o DotLocal, <<"X">> \o <<".", "L", "O", "C", "A", "L">>,
   DotLocal, HostX \o DotLocal \o DotLocal, HostX \o DotLocal \o <<".">>}

QuestionNames ==
  {HostX \o DotLocal, <<"X">> \o DotLocal, <<"y">> \o DotLocal,
   HostX \o DotLocal \o <<".">>, HostX, <<>>}

QuestionTypes == {dnsTypeA, dnsTypeAAAA, dnsTypePTR, dnsTypeTXT, dnsTypeSRV, 255}

Questions == {[Name |-> n, Type |-> t, Class |-> 1] : n \in QuestionNames, t \in QuestionTypes}

InitZoneInputs ==
  /\ InitWs
  /\ eventCallbacks = <<>>
  /\ InitSrv
  /\ cfg = Config(1, 0 - 1, TRUE)
  /\ serverInfo = ServerInfoOf(cfg)
  /\ runPc = "new"
  /\ InitMdns
  /\ InitCodec
  /\ InitFile
  /\ InitMore
  /\ zonePc = "none"
  /\ zoneCfgHost \in HostInputs
  /\ zoneHostname = <<>>
  /\ zoneIps = NilSlice
  /\ zoneArrays = <<>>
  /\ updPc = "idle"
  /\ updNew = NilSlice
  /\ updStored = {}
  /\ recPc = "idle"
  /\ recQ = NoQuestion
  /\ recHdr = NothingRead
  /\ recOut = NoAnswer

(* One goroutine uses the zone: a call returns before the next begins.     *)
SeqUpdCall(e) == recPc = "idle" /\ UpdCall(e)

SeqUpdCallFails == recPc = "idle" /\ UpdCallFails

SeqRecCall(q) == updPc = "idle" /\ RecCall(q)

SeqRecCallEmpty(q) == updPc = "idle" /\ RecCallEmpty(q)

NextZone ==
  \/ \E e \in Enumerations : ZoneNew(e)
  \/ \E e \in Enumerations : SeqUpdCall(e)
  \/ SeqUpdCallFails
  \/ \E w \in {"ptr", "len"} : UpdStore(w)
  \/ UpdReturn
  \/ UpdReturnFailed
  \/ \E q \in Questions : SeqRecCall(q)
  \/ \E q \in Questions : SeqRecCallEmpty(q)
  \/ \E w \in {"ptr", "len"} : RecLoad(w)
  \/ RecAnswer
  \/ RecReturn

SpecZone == InitZoneInputs /\ [][NextZone]_vars

(* UpdateIPs is called by one goroutine while another handles queries.     *)
NextZoneRace ==
  \/ \E e \in Enumerations : ZoneNew(e)
  \/ \E e \in Enumerations : UpdCall(e)
  \/ UpdCallFails
  \/ \E w \in {"ptr", "len"} : UpdStore(w)
  \/ UpdReturn
  \/ UpdReturnFailed
  \/ \E q \in Questions : RecCall(q)
  \/ \E q \in Questions : RecCallEmpty(q)
  \/ \E w \in {"ptr", "len"} : RecLoad(w)
  \/ RecAnswer
  \/ RecReturn

SpecZoneRace == InitZoneInputs /\ [][NextZoneRace]_vars


(* The addresses the zone knows: the elements of z.ips.                    *)
Known == SubSeq(ArrayAt(zoneIps.ptr), 1, zoneIps.len)

Known4 == SelectSeq(Known, LAMBDA ip : ip.v4 /\ ~ip.loopback)

Known6 == SelectSeq(Known, LAMBDA ip : ~ip.v4 /\ ~ip.loopback /\ ~ip.linkLocal)

OnePerAddress(list, type, ips) ==
  /\ Len(list) = Len(ips)
  /\ \A i \in 1..Len(ips) :
       list[i] = [Name |-> zoneHostname, Type |-> type, Class |-> 1,
                  TTL |-> 120, ip |-> ips[i]]

(* C26: a Records call answers only for the zone's hostname, compared      *)
(* without regard to case: an A question gets one A record per known       *)
(* non-loopback IPv4 address, an AAAA question one AAAA record per known   *)
(* non-loopback, non-link-local IPv6 address, every other type and every   *)
(* other name no record; each record carries the zone's hostname, class IN *)
(* and TTL 120.                                                            *)
C26_RecordsStep ==
  (recPc # "done" /\ recPc' = "done") =>
    /\ recOut'.kind = "records"
    /\ IF ToLower(recQ'.Name) # ToLower(zoneHostname) THEN recOut'.list = <<>>
       ELSE IF recQ'.Type = dnsTypeA
         THEN OnePerAddress(recOut'.list, dnsTypeA, Known4)
       ELSE IF recQ'.Type = dnsTypeAAAA
         THEN OnePerAddress(recOut'.list, dnsTypeAAAA, Known6)
       ELSE recOut'.list = <<>>

C26_RecordsAnswerOwnName == [][C26_RecordsStep]_vars

C26_UpperCaseQueryAnswered ==
  /\ recPc = "done"
  /\ recQ.Name = <<"X">> \o DotLocal
  /\ recQ.Type = dnsTypeAAAA
  /\ zoneHostname = HostX \o DotLocal
  /\ recOut.kind = "records"
  /\ Len(recOut.list) = 1
  /\ Len(Known) = 3

(* C27: the hostname of a zone ends with .local; a configured value that   *)
(* ends with .local is kept, any other value gets .local appended once,    *)
(* the empty value becomes matter-server.local, and normalising the        *)
(* zone's hostname again changes nothing.                                  *)
C27_HostnameNormalized ==
  zonePc = "built" =>
    /\ HasSuffix(zoneHostname, DotLocal)
    /\ HasSuffix(zoneCfgHost, DotLocal) => zoneHostname = zoneCfgHost
    /\ (zoneCfgHost # <<>> /\ ~HasSuffix(zoneCfgHost, DotLocal))
         => zoneHostname = zoneCfgHost \o DotLocal
    /\ zoneCfgHost = <<>> => zoneHostname = MatterServer \o DotLocal
    /\ HasSuffix(zoneHostname, DotLocal \o DotLocal)
         => HasSuffix(zoneCfgHost, DotLocal \o DotLocal)
    /\ hostnameOf(zoneHostname) = zoneHostname

C27_SuffixAppended ==
  /\ zonePc = "built"
  /\ zoneCfgHost = HostX
  /\ zoneHostname = HostX \o DotLocal

(* C28: a Records call that ranges over the address list uses one whole    *)
(* list, the one before a concurrent refresh or the one after it, never a  *)
(* header put together from both; and a refresh that cannot enumerate the  *)
(* interfaces leaves the list as it was.                                   *)
C28_SnapshotStep ==
  /\ (recPc' = "done" /\ recHdr'.got = {"ptr", "len"})
       => (recHdr'.len = Len(ArrayAt(recHdr'.ptr)) /\ recOut'.kind = "records")
  /\ updPc' = "failed" => zoneIps' = zoneIps

C28_RecordsUseOneSnapshot == [][C28_SnapshotStep]_vars


(* ======================================================================= *)
(* The node operations of JSONStorage (storage NewJSONStorage, Start,      *)
(* GetNode, GetNodes, SaveNode, DeleteNode), each call with its return.    *)
(* ======================================================================= *)

notStorage == <<wsVars, eventCallbacks, subVars, nodes, runVars, mdnsVars,
                codecVars, zoneVars, saveVars, pktVars, nameVars>>

(* The place of identifier i among the identifiers ids, smallest first.    *)
Rank(i, ids) == Cardinality({j \in ids : DecLE(j.d, i.d)})

(* loadJSONFile into &s.nodes: json.Unmarshal enters a new record for      *)
(* every node of the file, with a map and a list of its own, and leaves    *)
(* the other entries of the map alone.                                     *)
LoadedCells(file) ==
  [n \in 1..(2 * Cardinality(DOMAIN file.nodes)) |->
     LET i == CHOOSE j \in DOMAIN file.nodes :
                Rank(j, DOMAIN file.nodes) = (n + 1) \div 2
     IN IF n % 2 = 1 THEN file.nodes[i].attrs ELSE file.nodes[i].subs]

LoadedInto(st, file, base) ==
  [i \in DOMAIN st \union DOMAIN file.nodes |->
     IF i \in DOMAIN file.nodes
       THEN Record(i, file.nodes[i].available,
                   base + 2 * Rank(i, DOMAIN file.nodes) - 1,
                   base + 2 * Rank(i, DOMAIN file.nodes))
       ELSE st[i]]

(* A setting value, an interface{}: its dynamic type and its value, and    *)
(* the JSON text json.MarshalIndent writes for it.                         *)
Value(type, v) == [type |-> type, v |-> v]
Json(kind, text) == [kind |-> kind, text |-> text]

(* encoding/json on an interface{} value: an int and a float64 of the same *)
(* value are written as the same number, and a number is decoded into an   *)
(* interface{} as a float64.                                               *)
jsonMarshal(val) ==
  CASE val.type = "string" -> Json("string", val.v)
    [] val.type = "bool" -> Json("bool", val.v)
    [] val.type \in {"int", "float64"} -> Json("number", val.v)
    [] OTHER -> Json("null", "")

jsonUnmarshal(j) ==
  CASE j.kind = "string" -> Value("string", j.text)
    [] j.kind = "bool" -> Value("bool", j.text)
    [] j.kind = "number" -> Value("float64", j.text)
    [] OTHER -> Value("nil", "")

(* settings.json as saveSettings writes it, and loadSettings into          *)
(* &s.settings: the keys of the file are entered, the others stay.         *)
SetFileOf(settings) ==
  [exists |-> TRUE, settings |-> [k \in DOMAIN settings |-> jsonMarshal(settings[k])]]

LoadedSettings(settings, file) ==
  [k \in DOMAIN settings \union DOMAIN file.settings |->
     IF k \in DOMAIN file.settings THEN jsonUnmarshal(file.settings[k])
     ELSE settings[k]]

(* What a Storage call leaves of the settings: nothing changes, and the    *)
(* instance is no longer the one a Stop left.                              *)
SettingsKept == stStopped' = NotStopped /\ UNCHANGED <<stSettings, stSetFile>>

(* Start, storage Start, loadNodes and loadSettings: a missing file is no  *)
(* error and loads nothing.                                                *)
StorageStart ==
  /\ stPc = "new"
  /\ lastCmd = NoCall
  /\ stPc' = "started"
  /\ stNodes' = IF stFile.exists THEN LoadedInto(stNodes, stFile, Len(heap))
                ELSE stNodes
  /\ heap' = IF stFile.exists THEN heap \o LoadedCells(stFile) ELSE heap
  /\ stSettings' = IF stSetFile.exists THEN LoadedSettings(stSettings, stSetFile)
                   ELSE stSettings
  /\ lastCmd' = [name |-> "Start", args |-> <<>>]
  /\ lastOut' = Ok(Nil)
  /\ UNCHANGED <<notStorage, held, stFile, stSetFile, stStopped>>

(* SaveNode: the map is updated, then saveNodes rewrites the file.         *)
StorageSaveNode ==
  /\ lastCmd = NoCall
  /\ held # NoRecord
  /\ stNodes' = SavedInto(stNodes, held)
  /\ stFile' = FileOf(stNodes', heap)
  /\ lastCmd' = [name |-> "SaveNode", args |-> <<held.node_id>>]
  /\ lastOut' = Ok(Nil)
  /\ SettingsKept
  /\ UNCHANGED <<notStorage, heap, held, stPc>>

(* SaveNode when saveNodes fails: the map is updated all the same and the  *)
(* error is returned.                                                      *)
StorageSaveNodeWriteFails ==
  /\ lastCmd = NoCall
  /\ held # NoRecord
  /\ stNodes' = SavedInto(stNodes, held)
  /\ lastCmd' = [name |-> "SaveNode", args |-> <<held.node_id>>]
  /\ lastOut' = Failed("failed to write")
  /\ SettingsKept
  /\ UNCHANGED <<notStorage, heap, held, stPc, stFile>>

(* Variant of DeletedFrom: the entry stays in the map.                     *)
DeletedNothing(st, id) == st

(* delete(s.nodes, nodeID).                                                *)
DeletedFrom(st, id) == [i \in DOMAIN st \ {id} |-> st[i]]

(* DeleteNode: the entry is removed, then saveNodes rewrites the file.     *)
StorageDeleteNode(k) ==
  /\ lastCmd = NoCall
  /\ stNodes' = DeletedFrom(stNodes, NodeId(k))
  /\ stFile' = FileOf(stNodes', heap)
  /\ lastCmd' = [name |-> "DeleteNode", args |-> <<NodeId(k)>>]
  /\ lastOut' = Ok(Nil)
  /\ SettingsKept
  /\ UNCHANGED <<notStorage, heap, held, stPc>>

StorageDeleteNodeWriteFails(k) ==
  /\ lastCmd = NoCall
  /\ stNodes' = DeletedFrom(stNodes, NodeId(k))
  /\ lastCmd' = [name |-> "DeleteNode", args |-> <<NodeId(k)>>]
  /\ lastOut' = Failed("failed to write")
  /\ SettingsKept
  /\ UNCHANGED <<notStorage, heap, held, stPc, stFile>>

(* GetNode: a struct copy of the entry, or the not-found error.            *)
StorageGetNode(k) ==
  /\ lastCmd = NoCall
  /\ lastCmd' = [name |-> "GetNode", args |-> <<NodeId(k)>>]
  /\ lastOut' = IF NodeId(k) \in DOMAIN stNodes
                  THEN Ok([kind |-> "node", rec |-> stNodes[NodeId(k)]])
                  ELSE Failed("not found")
  /\ held' = IF NodeId(k) \in DOMAIN stNodes THEN stNodes[NodeId(k)] ELSE held
  /\ UNCHANGED <<notStorage, stNodes, heap, fileVars, settingVars>>

(* GetNodes: a struct copy of every entry.                                 *)
StorageGetNodes ==
  /\ lastCmd = NoCall
  /\ lastCmd' = [name |-> "GetNodes", args |-> <<>>]
  /\ lastOut' = Ok([kind |-> "nodes", list |-> StoredRecords(stNodes)])
  /\ UNCHANGED <<notStorage, nodeVars, fileVars, settingVars>>

(* The caller is done with the returned values and may call again.        *)
StorageReturn ==
  /\ lastCmd # NoCall
  /\ lastCmd' = NoCall
  /\ lastOut' = NoOut
  /\ UNCHANGED <<notStorage, stNodes, heap, held, fileVars, settingVars>>

(* The caller builds a record, or changes the one it holds.                *)
StorageCallerNew(k) ==
  /\ Len(heap) < 2 * CopyNodes + 2 * MaxRecords
  /\ held' = Record(NodeId(k), FALSE, Len(heap) + 1, Len(heap) + 2)
  /\ heap' = heap \o <<0, 0>>
  /\ UNCHANGED <<notStorage, stNodes, cmdVars, fileVars, settingVars>>

StorageCallerSetAvailable ==
  /\ held # NoRecord
  /\ held' = [held EXCEPT !.available = ~@]
  /\ UNCHANGED <<notStorage, stNodes, heap, cmdVars, fileVars, settingVars>>

(* The files a store can find at its base path: none, or nodes.json as an  *)
(* earlier run left it.                                                    *)
StoredFiles ==
  {NoFile} \union
    {[exists |-> TRUE,
      nodes |-> [i \in {NodeId(k) : k \in S} |->
                   [available |-> a, attrs |-> 0, subs |-> 0]]] :
       S \in SUBSET (1..CopyNodes), a \in BOOLEAN}

(* NewJSONStorage: empty maps, nothing loaded.                             *)
InitStorage ==
  /\ InitWs
  /\ eventCallbacks = <<>>
  /\ InitSrv
  /\ cfg = Config(1, 0 - 1, FALSE)
  /\ serverInfo = ServerInfoOf(cfg)
  /\ runPc = "new"
  /\ InitMdns
  /\ InitCodec
  /\ InitZone
  /\ stPc = "new"
  /\ stFile \in StoredFiles
  /\ InitMore

NextStorage ==
  \/ StorageStart
  \/ \E k \in 1..CopyNodes : StorageCallerNew(k)
  \/ StorageCallerSetAvailable
  \/ StorageSaveNode
  \/ StorageSaveNodeWriteFails
  \/ \E k \in 1..CopyNodes : StorageDeleteNode(k)
  \/ \E k \in 1..CopyNodes : StorageDeleteNodeWriteFails(k)
  \/ \E k \in 1..CopyNodes : StorageGetNode(k)
  \/ StorageGetNodes
  \/ StorageReturn

SpecStorage == InitStorage /\ [][NextStorage]_vars

(* The call made by this step.                                             *)
StorageCall(name) == lastCmd = NoCall /\ lastCmd'.name = name

(* C30: the storage keeps a map keyed by node id.  SaveNode(n) leaves,     *)
(* under n's id, a record equal to n and touches no other entry; GetNode   *)
(* returns the record of the map or, for an id that is not in it (never    *)
(* saved, or deleted), an error; GetNodes returns one record per id of the *)
(* map; DeleteNode(id) removes id and nothing else; and Start with no file *)
(* loads no node.                                                          *)
C30_NodeOperationsStep ==
  /\ StorageCall("SaveNode") =>
       /\ DOMAIN stNodes' = DOMAIN stNodes \union {held.node_id}
       /\ stNodes'[held.node_id] = held
       /\ \A i \in DOMAIN stNodes \ {held.node_id} : stNodes'[i] = stNodes[i]
  /\ StorageCall("GetNode") =>
       LET id == lastCmd'.args[1] IN
       IF id \in DOMAIN stNodes
         THEN lastOut' = Ok([kind |-> "node", rec |-> stNodes[id]])
         ELSE lastOut'.err # NoErr /\ lastOut'.result = Nil
  /\ StorageCall("GetNodes") =>
       /\ lastOut'.err = NoErr
       /\ {r.node_id : r \in lastOut'.result.list} = DOMAIN stNodes
       /\ Cardinality(lastOut'.result.list) = Cardinality(DOMAIN stNodes)
       /\ \A r \in lastOut'.result.list : r = stNodes[r.node_id]
  /\ StorageCall("DeleteNode") =>
       LET id == lastCmd'.args[1] IN
       /\ DOMAIN stNodes' = DOMAIN stNodes \ {id}
       /\ \A i \in DOMAIN stNodes' : stNodes'[i] = stNodes[i]
  /\ (StorageCall("Start") /\ ~stFile.exists /\ DOMAIN stNodes = {}) =>
       DOMAIN stNodes' = {}

C30_NodeOperations == [][C30_NodeOperationsStep]_vars

C30_SavedNodeRead ==
  /\ stPc = "started"
  /\ lastCmd.name = "GetNode"
  /\ lastOut.err = NoErr
  /\ lastOut.result.rec.available
  /\ lastOut.result.rec = held
  /\ Cardinality(DOMAIN stNodes) = 2
  /\ ~stFile.exists

(***************************************************************************)
(* Settings, Stop and a second instance on the same base path              *)
(* (storage SaveSetting, GetSetting, DeleteSetting, Stop, sync).           *)
(***************************************************************************)
MaxHeap == 8           \* cells of the heap: bounds the restarts

SettingKeys == {"k1", "k2"}
SettingValues ==
  {Value("string", "on"), Value("int", "42"), Value("float64", "42")}

notSettings == <<wsVars, eventCallbacks, subVars, nodeVars, runVars, mdnsVars,
                 codecVars, zoneVars, saveVars, pktVars, nameVars, stPc,
                 stFile>>

(* SaveSetting: the map is updated, then saveSettings rewrites the file.   *)
StorageSaveSetting(k, val) ==
  /\ lastCmd = NoCall
  /\ stSettings' = [j \in DOMAIN stSettings \union {k} |->
                      IF j = k THEN val ELSE stSettings[j]]
  /\ stSetFile' = SetFileOf(stSettings')
  /\ stStopped' = NotStopped
  /\ lastCmd' = [name |-> "SaveSetting", args |-> <<k>>]
  /\ lastOut' = Ok(Nil)
  /\ UNCHANGED notSettings

(* DeleteSetting: the key is removed, then saveSettings rewrites the file. *)
StorageDeleteSetting(k) ==
  /\ lastCmd = NoCall
  /\ stSettings' = [j \in DOMAIN stSettings \ {k} |-> stSettings[j]]
  /\ stSetFile' = SetFileOf(stSettings')
  /\ stStopped' = NotStopped
  /\ lastCmd' = [name |-> "DeleteSetting", args |-> <<k>>]
  /\ lastOut' = Ok(Nil)
  /\ UNCHANGED notSettings

(* GetSetting: the value of the map, or the not-found error.               *)
StorageGetSetting(k) ==
  /\ lastCmd = NoCall
  /\ lastCmd' = [name |-> "GetSetting", args |-> <<k>>]
  /\ lastOut' = IF k \in DOMAIN stSettings
                  THEN Ok([kind |-> "setting", value |-> stSettings[k]])
                  ELSE Failed("not found")
  /\ UNCHANGED <<notSettings, settingVars>>

(* Stop: sync rewrites nodes.json, vendors.json and settings.json from the *)
(* maps and Stop returns nil.                                              *)
StorageStop ==
  /\ stPc = "started"
  /\ lastCmd = NoCall
  /\ stFile' = FileOf(stNodes, heap)
  /\ stSetFile' = SetFileOf(stSettings)
  /\ stStopped' = [stopped |-> TRUE, nodes |-> StorageView,
                   settings |-> stSettings]
  /\ stPc' = "stopped"
  /\ lastCmd' = [name |-> "Stop", args |-> <<>>]
  /\ lastOut' = Ok(Nil)
  /\ UNCHANGED <<wsVars, eventCallbacks, subVars, nodeVars, runVars, mdnsVars,
                 codecVars, zoneVars, saveVars, pktVars, nameVars,
                 stSettings>>

(* Stop when a save of sync fails: the files before it are rewritten, the  *)
(* one that failed and those after it are not, and the error is returned.  *)
StorageStopFails(file) ==
  /\ stPc = "started"
  /\ lastCmd = NoCall
  /\ stFile' = IF file = "nodes" THEN stFile ELSE FileOf(stNodes, heap)
  /\ stStopped' = NotStopped
  /\ lastCmd' = [name |-> "Stop", args |-> <<>>]
  /\ lastOut' = Failed("failed to sync data during stop")
  /\ UNCHANGED <<wsVars, eventCallbacks, subVars, nodeVars, runVars, mdnsVars,
                 codecVars, zoneVars, saveVars, pktVars, nameVars, stSettings,
                 stSetFile, stPc>>

(* NewJSONStorage on the base path of the stopped instance: empty maps.    *)
StorageNew ==
  /\ stPc = "stopped"
  /\ lastCmd = NoCall
  /\ Len(heap) + 2 * Cardinality(DOMAIN stFile.nodes) <= MaxHeap
  /\ stPc' = "new"
  /\ stNodes' = <<>>
  /\ stSettings' = <<>>
  /\ UNCHANGED <<wsVars, eventCallbacks, subVars, nodes, heap, held, cmdVars,
                 runVars, mdnsVars, codecVars, zoneVars, saveVars, pktVars,
                 nameVars, stFile, stSetFile, stStopped>>

InitRestart ==
  /\ InitWs
  /\ eventCallbacks = <<>>
  /\ InitSrv
  /\ cfg = Config(1, 0 - 1, FALSE)
  /\ serverInfo = ServerInfoOf(cfg)
  /\ runPc = "new"
  /\ InitMdns
  /\ InitCodec
  /\ InitZone
  /\ stPc = "new"
  /\ stFile = NoFile
  /\ InitMore

NextRestart ==
  \/ StorageStart
  \/ \E k \in 1..CopyNodes : StorageCallerNew(k)
  \/ StorageCallerSetAvailable
  \/ StorageSaveNode
  \/ \E k \in 1..CopyNodes : StorageDeleteNode(k)
  \/ \E k \in SettingKeys, val \in SettingValues : StorageSaveSetting(k, val)
  \/ \E k \in SettingKeys : StorageDeleteSetting(k)
  \/ StorageStop
  \/ \E file \in {"nodes", "vendors", "settings"} : StorageStopFails(file)
  \/ StorageNew
  \/ \E k \in 1..CopyNodes : StorageGetNode(k)
  \/ StorageGetNodes
  \/ \E k \in SettingKeys : StorageGetSetting(k)
  \/ StorageReturn

SpecRestart == InitRestart /\ [][NextRestart]_vars

(* The instance, started, that followed a Stop and has not been written.   *)
Restarted == stPc = "started" /\ stStopped.stopped

(* C31: after any calls of SaveNode, DeleteNode and SaveSetting on one     *)
(* instance and a Stop, a new instance started on the same path returns    *)
(* from GetNode, GetNodes and GetSetting exactly the nodes and the         *)
(* settings the first one held at Stop.                                    *)
C31_RestartKeepsData ==
  Restarted =>
    /\ lastCmd.name = "GetNode" =>
         LET id == lastCmd.args[1] IN
         IF id \in DOMAIN stStopped.nodes
           THEN lastOut.err = NoErr /\ View(lastOut.result.rec) = stStopped.nodes[id]
           ELSE lastOut.err # NoErr
    /\ lastCmd.name = "GetNodes" =>
         {View(r) : r \in lastOut.result.list} =
           {stStopped.nodes[i] : i \in DOMAIN stStopped.nodes}
    /\ lastCmd.name = "GetSetting" =>
         LET k == lastCmd.args[1] IN
         IF k \in DOMAIN stStopped.settings
           THEN lastOut = Ok([kind |-> "setting", value |-> stStopped.settings[k]])
           ELSE lastOut.err # NoErr

(***************************************************************************)
(* saveJSONFile, step by step: what the base path holds while a document   *)
(* is being saved.                                                         *)
(***************************************************************************)
notSave == <<wsVars, eventCallbacks, subVars, nodeVars, cmdVars, runVars,
             mdnsVars, codecVars, zoneVars, fileVars, settingVars, pktVars,
             nameVars>>

SaveTargets == {"nodes.json", "settings.json"}
SaveDocs == {"d1", "d2"}

(* A file holding the whole of a document, or its beginning only.          *)
Whole(doc) == [exists |-> TRUE, doc |-> doc, whole |-> TRUE]
Partial(doc) == [exists |-> TRUE, doc |-> doc, whole |-> FALSE]

(* Variant of tmpPathOf: the document is written to the path itself.       *)
tmpPathSame(path) == path

(* tmpPath := path + ".tmp".                                               *)
tmpPathOf(path) == path \o ".tmp"

(* saveJSONFile is called and json.MarshalIndent has encoded the data.     *)
SaveBegin(path, doc) ==
  /\ savePc = "idle"
  /\ savePc' = "write"
  /\ savePath' = path
  /\ saveData' = doc
  /\ saveErr' = NoErr
  /\ UNCHANGED <<notSave, fsFiles>>

(* json.MarshalIndent fails: the error is returned, no file is touched.    *)
SaveMarshalFails(path) ==
  /\ savePc = "idle"
  /\ savePc' = "returned"
  /\ savePath' = path
  /\ saveData' = ""
  /\ saveErr' = "failed to marshal JSON"
  /\ UNCHANGED <<notSave, fsFiles>>

(* os.WriteFile(tmpPath, jsonData, 0644) succeeds.                         *)
SaveWriteTmp ==
  /\ savePc = "write"
  /\ fsFiles' = [fsFiles EXCEPT ![tmpPathOf(savePath)] = Whole(saveData)]
  /\ savePc' = "rename"
  /\ UNCHANGED <<notSave, savePath, saveData, saveErr>>

(* os.WriteFile fails: the file could not be opened and is as it was, or   *)
(* it was truncated and holds a part of the data; the error is returned.   *)
SaveWriteTmpFails ==
  /\ savePc = "write"
  /\ \E left \in {fsFiles[tmpPathOf(savePath)], Partial(saveData)} :
       fsFiles' = [fsFiles EXCEPT ![tmpPathOf(savePath)] = left]
  /\ savePc' = "returned"
  /\ saveErr' = "failed to write temporary file"
  /\ UNCHANGED <<notSave, savePath, saveData>>

(* os.Rename(tmpPath, path) succeeds: the path names the temporary file's  *)
(* content and the temporary name is gone, in one step.                    *)
SaveRename ==
  /\ savePc = "rename"
  /\ fsFiles' = [p \in DOMAIN fsFiles |->
                   IF p = savePath THEN fsFiles[tmpPathOf(savePath)]
                   ELSE IF p = tmpPathOf(savePath) THEN Absent
                   ELSE fsFiles[p]]
  /\ savePc' = "returned"
  /\ UNCHANGED <<notSave, savePath, saveData, saveErr>>

(* os.Rename fails: nothing is renamed.                                    *)
SaveRenameFails ==
  /\ savePc = "rename"
  /\ savePc' = "remove"
  /\ UNCHANGED <<notSave, fsFiles, savePath, saveData, saveErr>>

(* os.Remove(tmpPath), then the rename error is returned.                  *)
SaveRemoveTmp ==
  /\ savePc = "remove"
  /\ fsFiles' = [fsFiles EXCEPT ![tmpPathOf(savePath)] = Absent]
  /\ savePc' = "returned"
  /\ saveErr' = "failed to rename temporary file"
  /\ UNCHANGED <<notSave, savePath, saveData>>

(* The caller has the result and may save again.                           *)
SaveReturn ==
  /\ savePc = "returned"
  /\ savePc' = "idle"
  /\ UNCHANGED <<notSave, fsFiles, savePath, saveData, saveErr>>

InitSaving ==
  /\ InitWs
  /\ eventCallbacks = <<>>
  /\ InitSrv
  /\ InitExt

NextSave ==
  \/ \E path \in SaveTargets, doc \in SaveDocs : SaveBegin(path, doc)
  \/ \E path \in SaveTargets : SaveMarshalFails(path)
  \/ SaveWriteTmp
  \/ SaveWriteTmpFails
  \/ SaveRename
  \/ SaveRenameFails
  \/ SaveRemoveTmp
  \/ SaveReturn

SpecSave == InitSaving /\ [][NextSave]_vars

(* C32: a persistence file is written to a temporary file that is then     *)
(* renamed: at every step, a failed temporary write and a failed rename    *)
(* included, each target file keeps the whole document it held or holds    *)
(* the whole new one, never a part of one; and when the rename fails the   *)
(* temporary file is removed and an error is returned.                     *)
C32_AtomicReplaceStep ==
  /\ \A p \in SaveTargets :
       /\ fsFiles'[p] \in {fsFiles[p], Whole(saveData)}
       /\ fsFiles'[p].whole
  /\ savePc = "remove" =>
       /\ savePc' = "returned"
       /\ saveErr' # NoErr
       /\ ~fsFiles'[savePath \o ".tmp"].exists

Handling(s, m) == cmdPc[s][m] \in {"run", "okSelect", "errSelect"}

(* The result of frame m is on the outbound queue of session s.            *)
ResultQueued(s, m) ==
  \E i \in 1..Len(send[s]) : send[s][i].kind = "result" /\ send[s][i].id = m

(* C33: the read loop hands every decoded command to a handler of its own  *)
(* and is back at the head of its loop in the same step, whatever the      *)
(* handlers of the earlier frames are doing: it goes on reading while a    *)
(* handler is blocked, and never waits for one.                            *)
C33_ReadLoopStep ==
  \A s \in Sessions :
    /\ (frames'[s] = frames[s] + 1 /\ cmdPc'[s][frames'[s]] = "run") =>
         /\ rpPc'[s] = "check"
         /\ \A m \in FrameIds : cmdPc'[s][m] # cmdPc[s][m] => m = frames'[s]
    /\ (rpPc[s] = "read" /\ rpPc'[s] = "check") =>
         \A m \in 1..frames[s] : cmdPc'[s][m] = cmdPc[s][m]
    /\ (rpPc[s] = "check" /\ \E m \in FrameIds : Handling(s, m)) =>
         rpPc'[s] \in {"check", "read", PcAfterGate(s)}

C33_ReadLoopNeverWaits == [][C33_ReadLoopStep]_vars

C33_LaterResultFirst ==
  /\ cmdPc[1][1] = "run"
  /\ ResultQueued(1, 2)
  /\ rpPc[1] = "read"
  /\ frames[1] = 2

(***************************************************************************)
(* One received packet: parsePacket, handleQuery and sendResponse          *)
(* (internal/mdns/server.go:241-320).                                      *)
(***************************************************************************)
notPkt == <<wsVars, eventCallbacks, subVars, nodeVars, cmdVars, runVars,
            mdnsVars, codecVars, zoneVars, fileVars, settingVars, saveVars,
            nameVars>>

(* A Go string is its bytes: the byte of a character of a name.            *)
LowerCase == <<"a", "b", "c", "d", "e", "f", "g", "h", "i", "j", "k", "l", "m",
               "n", "o", "p", "q", "r", "s", "t", "u", "v", "w", "x", "y", "z">>
UpperCase == <<"A", "B", "C", "D", "E", "F", "G", "H", "I", "J", "K", "L", "M",
               "N", "O", "P", "Q", "R", "S", "T", "U", "V", "W", "X", "Y", "Z">>

ByteOf(c) ==
  IF c = "." THEN Dot
  ELSE IF \E k \in 1..26 : LowerCase[k] = c
    THEN 96 + (CHOOSE k \in 1..26 : LowerCase[k] = c)
  ELSE IF \E k \in 1..26 : UpperCase[k] = c
    THEN 64 + (CHOOSE k \in 1..26 : UpperCase[k] = c)
  ELSE 45

CharOf(b) ==
  IF b = Dot THEN "."
  ELSE IF b \in 97..122 THEN LowerCase[b - 96]
  ELSE IF b \in 65..90 THEN UpperCase[b - 64]
  ELSE "-"

Bytes(str) == [k \in 1..Len(str) |-> ByteOf(str[k])]
Chars(bytes) == [k \in 1..Len(bytes) |-> CharOf(bytes[k])]

(* net.IP.To4 and To16 of the addresses the inputs use.                    *)
Zeros(n) == [k \in 1..n |-> 0]

AddrBytes(ip) ==
  CASE ip.text = "192.168.1.100" -> <<192, 168, 1, 100>>
    [] ip.text = "10.0.0.50" -> <<10, 0, 0, 50>>
    [] ip.text = "127.0.0.1" -> <<127, 0, 0, 1>>
    [] ip.text = "169.254.1.1" -> <<169, 254, 1, 1>>
    [] ip.text = "2001:db8::1" -> <<32, 1, 13, 184>> \o Zeros(11) \o <<1>>
    [] ip.text = "fe80::1" -> <<254, 128>> \o Zeros(13) \o <<1>>
    [] OTHER -> Zeros(15) \o <<1>>

(* encodeRecordData, server.go:322-337, of an A or AAAA record.            *)
encodeRecordData(r) == AddrBytes(r.ip)

(* Zone.Records called by the one goroutine that uses the zone.            *)
zoneRecords(q) ==
  IF Answered(q)
    THEN recordsFor(q.Type, SubSeq(ArrayAt(zoneIps.ptr), 1, zoneIps.len))
    ELSE <<>>

(* handleQuery, server.go:281-285: the Question of a parsed question.      *)
QuestionOf(q) == [Name |-> Chars(q.Name), Type |-> q.Type, Class |-> q.Class]

(* handleQuery, server.go:288-296: the dnsRecord of a zone record.         *)
dnsRecordOf(r) ==
  [Name |-> Bytes(r.Name), Type |-> r.Type, Class |-> r.Class, TTL |-> r.TTL,
   Data |-> encodeRecordData(r)]

RECURSIVE answersFor(_)
(* handleQuery, server.go:280-297: the loop over the questions.            *)
answersFor(qs) ==
  IF qs = <<>> THEN <<>>
  ELSE LET records == zoneRecords(QuestionOf(Head(qs)))
       IN [k \in 1..Len(records) |-> dnsRecordOf(records[k])]
            \o answersFor(Tail(qs))

(* handleQuery with sendResponse, server.go:265-320.                       *)
handleQuery(msg) ==
  IF Len(msg.Questions) = 0
    THEN [kind |-> "noQuestions", lookups |-> <<>>, sent |-> <<>>]
  ELSE
    LET response == [ID |-> msg.ID, Response |-> TRUE, Opcode |-> 0,
                     Authoritative |-> TRUE, Truncated |-> FALSE,
                     RecursionDesired |-> FALSE, RecursionAvailable |-> FALSE,
                     Rcode |-> 0, Questions |-> <<>>,
                     Answers |-> answersFor(msg.Questions)]
        lookups == [k \in 1..Len(msg.Questions) |-> QuestionOf(msg.Questions[k])]
    IN IF Len(response.Answers) > 0
         THEN [kind |-> "sent", lookups |-> lookups,
               sent |-> <<encodeDNSMessage(response)>>]
         ELSE [kind |-> "noRecords", lookups |-> lookups, sent |-> <<>>]

(* Variant of parsePacket: the response code is not looked at.             *)
parsePacketAnyRcode(buf) ==
  LET p == parseDNSMessage(buf) IN
  IF p.kind # "message" THEN [kind |-> p.kind, lookups |-> <<>>, sent |-> <<>>]
  ELSE IF p.msg.Response \/ p.msg.Opcode # 0
    THEN [kind |-> "ignored", lookups |-> <<>>, sent |-> <<>>]
  ELSE handleQuery(p.msg)

(* parsePacket, server.go:241-263.                                         *)
parsePacket(buf) ==
  LET p == parseDNSMessage(buf) IN
  IF p.kind # "message" THEN [kind |-> p.kind, lookups |-> <<>>, sent |-> <<>>]
  ELSE IF p.msg.Response \/ p.msg.Opcode # 0 \/ p.msg.Rcode # 0
    THEN [kind |-> "ignored", lookups |-> <<>>, sent |-> <<>>]
  ELSE handleQuery(p.msg)

(* recv, server.go:235-237: a packet was read and parsePacket handles it.  *)
PktHandle(buf) ==
  /\ zonePc = "built"
  /\ pktPc = "idle"
  /\ pktPc' = "done"
  /\ pktBuf' = buf
  /\ pktOut' = parsePacket(buf)
  /\ UNCHANGED notPkt

(* recv is back at the head of its loop.                                   *)
PktNext ==
  /\ pktPc = "done"
  /\ pktOut.kind \notin {"panic", "hang"}
  /\ pktPc' = "idle"
  /\ pktBuf' = <<>>
  /\ pktOut' = NoOutcome
  /\ UNCHANGED notPkt

(* ---- the inputs ---- *)
QueryHosts == {HostX, <<"X">> \o DotLocal}

QueryNames ==
  {Bytes(HostX \o DotLocal), Bytes(<<"X">> \o <<".", "L", "O", "C", "A", "L">>),
   Bytes(<<"y">> \o DotLocal)}

QueryQuestions ==
  {[Name |-> n, Type |-> ty, Class |-> 1] :
     n \in QueryNames, ty \in {dnsTypeA, dnsTypeAAAA, dnsTypePTR}}

QuestionLists ==
  {<<>>} \union {<<q>> : q \in QueryQuestions}
         \union {<<q1, q2>> : q1 \in QueryQuestions, q2 \in QueryQuestions}

QueryMessages ==
  {[ID |-> 258, Response |-> r, Opcode |-> op, Authoritative |-> FALSE,
    Truncated |-> FALSE, RecursionDesired |-> FALSE,
    RecursionAvailable |-> FALSE, Rcode |-> rc, Questions |-> qs,
    Answers |-> <<>>] :
     r \in BOOLEAN, op \in {0, 2}, rc \in {0, 3}, qs \in QuestionLists}

QueryPackets ==
  {encodeDNSMessage(m) : m \in QueryMessages}
    \union {<<0, 7>>, <<0, 7, 0, 0, 0, 1, 0, 0, 0, 0, 0, 0, 192>>,
            <<0, 7, 0, 0, 0, 1, 0, 0, 0, 0, 0, 0, 192, 12>>,
            <<0, 7, 128, 0, 0, 1, 0, 0, 0, 0, 0, 0, 1, 97>>}

InitQuery ==
  /\ InitWs
  /\ eventCallbacks = <<>>
  /\ InitSrv
  /\ cfg = Config(1, 0 - 1, TRUE)
  /\ serverInfo = ServerInfoOf(cfg)
  /\ runPc = "new"
  /\ InitMdns
  /\ InitCodec
  /\ InitFile
  /\ InitMore
  /\ zonePc = "none"
  /\ zoneCfgHost \in QueryHosts
  /\ zoneHostname = <<>>
  /\ zoneIps = NilSlice
  /\ zoneArrays = <<>>
  /\ updPc = "idle"
  /\ updNew = NilSlice
  /\ updStored = {}
  /\ recPc = "idle"
  /\ recQ = NoQuestion
  /\ recHdr = NothingRead
  /\ recOut = NoAnswer

NextQuery ==
  \/ \E e \in Enumerations : ZoneNew(e)
  \/ \E buf \in QueryPackets : PktHandle(buf)
  \/ PktNext

SpecQuery == InitQuery /\ [][NextQuery]_vars

(* The packet is a query that parsePacket accepts: it was parsed, and its  *)
(* response bit, its opcode and its response code are all zero.            *)
AcceptedQuery ==
  /\ pktOut.kind \notin {"error", "panic", "hang"}
  /\ pktBuf[3] < 128
  /\ (pktBuf[3] \div 8) % 16 = 0
  /\ pktBuf[4] % 16 = 0

(* The records the zone has for the k-th question of the packet.           *)
Matched(k) ==
  LET q == parseDNSMessage(pktBuf).msg.Questions[k]
  IN zoneRecords([Name |-> Chars(q.Name), Type |-> q.Type, Class |-> q.Class])

RECURSIVE MatchedFrom(_, _)
MatchedFrom(k, n) ==
  IF k > n THEN <<>>
  ELSE [j \in 1..Len(Matched(k)) |->
          [Name |-> Bytes(Matched(k)[j].Name), Type |-> Matched(k)[j].Type,
           Class |-> 1, TTL |-> 120, Data |-> AddrBytes(Matched(k)[j].ip)]]
       \o MatchedFrom(k + 1, n)

(* C34: a packet with the response bit, a non-zero opcode or a non-zero    *)
(* response code is ignored: no zone lookup is made and nothing is sent.   *)
(* For an accepted query a response is sent exactly when a record matched  *)
(* some question: no question, or no matching record, no reply.  The       *)
(* response carries the id of the query, the response and authoritative    *)
(* bits, and the matched records of all questions in question order.       *)
C34_PacketHandled ==
  pktPc = "done" =>
    IF ~AcceptedQuery THEN pktOut.lookups = <<>> /\ pktOut.sent = <<>>
    ELSE
      LET n == U16(pktBuf, 4) IN
      /\ Len(pktOut.lookups) = n
      /\ Len(pktOut.sent) <= 1
      /\ pktOut.sent # <<>> <=> \E k \in 1..n : Matched(k) # <<>>
      /\ pktOut.sent # <<>> =>
           LET b == pktOut.sent[1] IN
           /\ U16(b, 0) = U16(pktBuf, 0)
           /\ b[3] = 128 + 4
           /\ b[4] = 0
           /\ U16(b, 4) = 0
           /\ U16(b, 6) = Len(MatchedFrom(1, n))
           /\ SubSeq(b, 13, Len(b)) = encodeAnswers(MatchedFrom(1, n))

C34_TwoQuestionsAnswered ==
  /\ pktPc = "done"
  /\ pktOut.kind = "sent"
  /\ Len(pktOut.lookups) = 2
  /\ pktOut.lookups[1].Type = dnsTypeAAAA
  /\ pktOut.lookups[2].Type = dnsTypeA
  /\ pktOut.lookups[1].Name # pktOut.lookups[2].Name
  /\ Matched(1) # <<>>
  /\ Len(Matched(2)) = 2

(***************************************************************************)
(* Names on the wire: encodeName, and the names a peer compresses.         *)
(***************************************************************************)
MaxPointers == 2       \* names laid out with a pointer to an earlier name

notName == <<wsVars, eventCallbacks, subVars, nodeVars, cmdVars, runVars,
             mdnsVars, codecVars, zoneVars, fileVars, settingVars, saveVars,
             pktVars>>

(* Labels of 1, 5 and 63 bytes, and the names of one or two of them.       *)
Label63 == [k \in 1..63 |-> 97 + (k % 26)]
NameLabels == {<<97>>, <<108, 111, 99, 97, 108>>, Label63}
LabelLists == {<<l>> : l \in NameLabels} \union
              {<<l1, l2>> : l1 \in NameLabels, l2 \in NameLabels}

(* A compression pointer to the offset target: two bytes, the top two bits *)
(* of the first set.                                                       *)
Pointer(target) == <<192 + (target \div 256), target % 256>>

(* encodeName lays the name out, with no pointer.                          *)
NameEncode ==
  /\ nmPc = "chosen"
  /\ nmBuf' = encodeName(Join(nmName))
  /\ nmOff' = 0
  /\ nmPc' = "encoded"
  /\ UNCHANGED <<notName, nmName, nmPtr, nmOut>>

(* A peer appends a name that ends where the last one starts: its first    *)
(* labels, then a pointer to the name laid out before.                     *)
NameCompress(labels) ==
  /\ nmPc = "encoded"
  /\ Len(nmName) + Len(labels) <= 2 + MaxPointers
  /\ Cardinality({k \in 1..Len(nmBuf) : nmBuf[k] >= 192}) < MaxPointers
  /\ nmName' = labels \o nmName
  /\ nmBuf' = nmBuf \o SubSeq(encodeName(Join(labels)), 1,
                              Len(encodeName(Join(labels))) - 1)
                    \o Pointer(nmOff)
  /\ nmOff' = Len(nmBuf)
  /\ nmPtr' = Len(nmBuf) + Len(encodeName(Join(labels))) - 1
  /\ UNCHANGED <<notName, nmPc, nmOut>>

(* parseDNSMessage, server.go:395: the name is parsed.                     *)
NameParse ==
  /\ nmPc = "encoded"
  /\ nmOut' = parseName(nmBuf, nmOff)
  /\ nmPc' = "parsed"
  /\ UNCHANGED <<notName, nmName, nmBuf, nmOff, nmPtr>>

InitNames ==
  /\ InitWs
  /\ eventCallbacks = <<>>
  /\ InitSrv
  /\ cfg = Config(1, 0 - 1, TRUE)
  /\ serverInfo = ServerInfoOf(cfg)
  /\ runPc = "new"
  /\ InitMdns
  /\ InitCodec
  /\ InitZone
  /\ InitFile
  /\ InitSettings
  /\ InitSave
  /\ InitPkt
  /\ nmPc = "chosen"
  /\ nmName \in LabelLists
  /\ nmBuf = <<>>
  /\ nmOff = 0
  /\ nmPtr = 0 - 1
  /\ nmOut = [kind |-> "none"]

NextNames ==
  \/ NameEncode
  \/ \E labels \in LabelLists \union {<<>>} : NameCompress(labels)
  \/ NameParse

SpecNames == InitNames /\ [][NextNames]_vars

(* C35: a name laid out with a compression pointer is parsed to the same   *)
(* dot-joined string as its uncompressed equivalent, and the offset        *)
(* returned is the one just after the first pointer, not the one reached   *)
(* at the pointer's target; a name without pointer, of non-empty labels of *)
(* at most 63 bytes, comes back from parseName(encodeName(name)) with the  *)
(* offset just after the terminating zero byte.                            *)
C35_PointerSameAsPlain ==
  nmPc = "parsed" =>
    /\ nmOut.kind = "ok"
    /\ nmOut.name = Join(nmName)
    /\ nmOut.name = parseName(encodeName(Join(nmName)), 0).name
    /\ nmOut.next = IF nmPtr < 0 THEN Len(nmBuf) ELSE nmPtr + 2
    /\ nmPtr < 0 => nmBuf[nmOut.next] = 0

C35_ChainedPointersParsed ==
  /\ nmPc = "parsed"
  /\ nmOut.kind = "ok"
  /\ Len(nmName) = 4
  /\ nmName[1] = Label63
  /\ nmOff > 0
  /\ nmPtr = nmOff + 64
  /\ nmOut.next = nmOff + 66
  /\ Cardinality({k \in 1..Len(nmBuf) : nmBuf[k] >= 192}) = 2

(* C36: parseName returns for every buffer, and with it parseDNSMessage    *)
(* and the handling of one packet by the receive loop, also when a         *)
(* compression pointer points to itself or pointers form a cycle.          *)
C36_PacketHandlingTerminates ==
  pktPc = "done" =>
    /\ parseName(pktBuf, 12).kind # "hang"
    /\ parseDNSMessage(pktBuf).kind # "hang"
    /\ pktOut.kind # "hang"

(***************************************************************************)
(* sendMessage against close, and events against unsubscribe.              *)
(***************************************************************************)
(* C37: sendMessage never sends on a queue that close() has closed: under  *)
(* every interleaving of a sendMessage (of a command handler, an event     *)
(* callback or the read loop's error path) with close() on its session,    *)
(* the call enqueues on the open queue or returns an error, and it never   *)
(* panics.                                                                 *)
C37_SendStep ==
  \A s \in Sessions :
    SendSelectStep(s) =>
      /\ crashed' = crashed
      /\ \/ send'[s] = send[s]
         \/ ~chanClosed[s] /\ Len(send'[s]) = Len(send[s]) + 1

C37_NoSendOnClosedQueue == [][C37_SendStep]_vars

(* The callback of session s for event e is invoked by this step.          *)
Invoked(s, e) == evPc[s][e] = "none" /\ evPc'[s][e] # "none"

(* This step appends the message of event e to the queue of session s.     *)
EventEnqueued(s, e) ==
  /\ Len(send'[s]) = Len(send[s]) + 1
  /\ send'[s][Len(send'[s])].kind = "event"
  /\ send'[s][Len(send'[s])].id = e

(* A callback is invoked only by the EmitEvent call of its event, and only *)
(* for a subscriber whose unsubscribe closure has not returned.            *)
C38_InvokedAtEmitOnly ==
  \A s \in Sessions : \A e \in EventIds :
    Invoked(s, e) =>
      /\ emitted' = emitted + 1 /\ e = emitted'
      /\ unsubCalls[s] = 0

(* A cancelled scope stays cancelled, a callback that finds it cancelled   *)
(* at the first select of sendMessage ends there, and only a callback that *)
(* passed the first select enqueues the message of its event.              *)
C38_ClosedNeverEnqueues ==
  \A s \in Sessions :
    /\ CtxDone(s) => cancelled'[s] = cancelled[s]
    /\ \A e \in EventIds :
         /\ (evPc[s][e] = "start" /\ evPc'[s][e] # "start") =>
              /\ evPc'[s][e] = (IF CtxDone(s) THEN "closed" ELSE "select")
              /\ send'[s] = send[s]
         /\ EventEnqueued(s, e) => evPc[s][e] = "select"
         /\ evPc[s][e] = "closed" => (evPc'[s][e] = "closed" /\ ~EventEnqueued(s, e))

(* C38: no callback of a subscriber is invoked for an event whose          *)
(* EmitEvent call starts after the subscriber's unsubscribe closure        *)
(* returned; and no event published after the scope of a session was       *)
(* cancelled is enqueued on its queue: its callback, if it is invoked at   *)
(* all, returns at the first select of sendMessage.                        *)
C38_NoLateEvent == [][C38_InvokedAtEmitOnly /\ C38_ClosedNeverEnqueues]_vars

(* The first event was enqueued on a session, its unsubscribe closure was  *)
(* invoked, and the second event was published without a callback for it.  *)
C38_SecondEventNotDelivered ==
  \E s \in Sessions :
    /\ evPc[s][1] = "sent" /\ unsubCalls[s] > 0
    /\ emitted = 2 /\ evPc[s][2] = "none"

(* Run and shutdown as in SpecShutdown, and the callbacks that the         *)
(* server_shutdown event starts (handleEvent, handler.go:273-285).         *)
NextShutdownEvent ==
  \/ NextShutdown
  \/ \E s \in 1..ShutdownSessions : Callbacks(s)

SpecShutdownEvent == InitShutdown /\ [][NextShutdownEvent]_vars

(* The message of the server_shutdown event is in the queue of session s   *)
(* or was taken from it.                                                   *)
ShutdownEventEnqueued(s) == evPc[s][1] = "sent"

(* C39: shutdown publishes the server_shutdown event only after            *)
(* Handler.Shutdown has returned with every session closed and             *)
(* unsubscribed, so the event is enqueued on the queue of no session.      *)
C39_ShutdownEventUndelivered ==
  /\ emitted > 0 => (sdPc = "done" /\ eventCallbacks = <<>>)
  /\ \A s \in Sessions : ~ShutdownEventEnqueued(s)

=============================================================================
